---- MODULE Spec2Model ----
(***************************************************************************)
(* Merkle distributor: the off-chain tree/parser (string-balance-tree.ts,  *)
(* parse-string-balance-map.ts, merkle-tree.ts) and the on-chain           *)
(* registries (MerkleDistributorManager, StringMerkleDistributorManager).  *)
(*                                                                         *)
(* Byte strings are sequences of naturals.  keccak256 is modelled as a     *)
(* collision-free function: the digest of a byte string is the byte string *)
(* behind a length prefix, so that a concatenation of digests parses in    *)
(* one way only.  The numeric order of digests, which keccak makes         *)
(* arbitrary, is a total order scrambled by the variable salt.             *)
(***************************************************************************)
EXTENDS Integers, Sequences, FiniteSets, Bags, TLC

(***************************************************************************)
(* Bounds                                                                  *)
(***************************************************************************)
MaxEntries == 3
NumRaw == 3
MaxSalt == 1
MaxCampaigns == 2
MaxBalance == 4

(***************************************************************************)
(* Byte encodings                                                          *)
(***************************************************************************)
\* bits of a word of the claimed bitmap
WordBits == 256

RawStrings == 1..NumRaw

\* utf8 bytes of a raw identifier string (a UUID in the tests)
StrBytes(s) == <<200 + s>>

\* the 20 bytes of an address
AddrBytes(a) == <<100 + a>>

keccak256(bytes) == <<Len(bytes)>> \o bytes

\* "0x…" hex string of a 32-byte value, as utf8 bytes; and its inverse
bufToHex(d) == <<300>> \o d
hexToBuf(h) == SubSeq(h, 2, Len(h))

\* utils.solidityKeccak256(["string"], [uuid]): the key the tests put in the map
hashedUUID(s) == bufToHex(keccak256(StrBytes(s)))

\* 32-byte literals of the tests; no byte string hashes to them
ZERO_BYTES32 == <<900>>
ONE_BYTES32 == <<901>>

RECURSIVE SumSeq(_)
SumSeq(s) == IF s = <<>> THEN 0 ELSE Head(s) + SumSeq(Tail(s))

RECURSIVE LexLess(_, _)
LexLess(a, b) ==
    IF b = <<>> THEN FALSE
    ELSE IF a = <<>> THEN TRUE
    ELSE IF Head(a) # Head(b) THEN Head(a) < Head(b)
    ELSE LexLess(Tail(a), Tail(b))

Mix(d, s) == SumSeq([i \in 1..Len(d) |-> d[i] * (i + 2 * s + 1)]) % 7

\* Buffer.compare(a, b) < 0 on two digests
BufLess(a, b, s) ==
    \/ Mix(a, s) < Mix(b, s)
    \/ Mix(a, s) = Mix(b, s) /\ LexLess(a, b)

(***************************************************************************)
(* merkle-tree.ts                                                          *)
(***************************************************************************)
sortAndConcat(a, b, s) == IF BufLess(b, a, s) THEN b \o a ELSE a \o b

combinedHash(first, second, s) == keccak256(sortAndConcat(first, second, s))

RECURSIVE SortBufs(_, _)
SortBufs(S, s) ==
    IF S = {} THEN <<>>
    ELSE LET m == CHOOSE x \in S : \A y \in S \ {x} : BufLess(x, y, s)
         IN  <<m>> \o SortBufs(S \ {m}, s)

getNextLayer(elements, s) ==
    [k \in 1..((Len(elements) + 1) \div 2) |->
        IF 2 * k <= Len(elements)
        THEN combinedHash(elements[2 * k - 1], elements[2 * k], s)
        ELSE elements[2 * k - 1]]

RECURSIVE getLayers(_, _)
getLayers(elements, s) ==
    IF Len(elements) <= 1 THEN <<elements>>
    ELSE <<elements>> \o getLayers(getNextLayer(elements, s), s)

\* new MerkleTree(elements): sorted, de-duplicated leaves and all layers
MerkleTree(elements, s) ==
    getLayers(SortBufs({elements[i] : i \in DOMAIN elements}, s), s)

getRoot(tree) == tree[Len(tree)][1]

\* 0-based position of el in the sorted leaves
bufIndexOf(tree, el) == (CHOOSE i \in DOMAIN tree[1] : tree[1][i] = el) - 1

\* mutant: a node without a pair contributes itself to the proof
RECURSIVE ProofFrom_padded(_, _, _)
ProofFrom_padded(tree, level, idx) ==
    IF level >= Len(tree) THEN <<>>
    ELSE LET layer == tree[level]
             pairIdx == IF idx % 2 = 0 THEN idx + 1 ELSE idx - 1
             here == IF pairIdx < Len(layer) THEN <<layer[pairIdx + 1]>>
                     ELSE <<layer[idx + 1]>>
         IN  here \o ProofFrom_padded(tree, level + 1, idx \div 2)

RECURSIVE ProofFrom(_, _, _)
ProofFrom(tree, level, idx) ==
    IF level > Len(tree) THEN <<>>
    ELSE LET layer == tree[level]
             pairIdx == IF idx % 2 = 0 THEN idx + 1 ELSE idx - 1
             here == IF pairIdx < Len(layer) THEN <<layer[pairIdx + 1]>> ELSE <<>>
         IN  here \o ProofFrom(tree, level + 1, idx \div 2)

getProof(tree, el) == ProofFrom(tree, 1, bufIndexOf(tree, el))

getHexProof(tree, el) == [i \in DOMAIN getProof(tree, el) |-> bufToHex(getProof(tree, el)[i])]

(***************************************************************************)
(* string-balance-tree.ts                                                  *)
(***************************************************************************)
\* BalanceTree.toNode: solidityKeccak256(['uint256','string','uint256'], ...)
toNode(index, hashed, amount) == keccak256(<<index>> \o hashed \o <<amount>>)

\* new BalanceTree(balances): leaf i-1 (0-based index) for the i-th balance
BalanceTree(balances, s) ==
    MerkleTree([i \in DOMAIN balances |->
                   toNode(i - 1, balances[i].hashed, balances[i].amount)], s)

getHexRoot(tree) == bufToHex(getRoot(tree))

BalanceTreeGetProof(tree, index, hashed, amount) ==
    getHexProof(tree, toNode(index, hashed, amount))

RECURSIVE FoldProof(_, _, _)
FoldProof(pair, proof, s) ==
    IF proof = <<>> THEN pair
    ELSE FoldProof(combinedHash(pair, Head(proof), s), Tail(proof), s)

\* mutant: the pair is hashed in the order given, not sorted
RECURSIVE FoldProofUnsorted(_, _)
FoldProofUnsorted(pair, proof) ==
    IF proof = <<>> THEN pair
    ELSE FoldProofUnsorted(keccak256(pair \o Head(proof)), Tail(proof))

verifyProof_unsorted(index, hashed, amount, proof, root, s) ==
    FoldProofUnsorted(toNode(index, hashed, amount), proof) = root

\* BalanceTree.verifyProof(index, hashed, amount, proof: Buffer[], root: Buffer)
verifyProof(index, hashed, amount, proof, root, s) ==
    FoldProof(toNode(index, hashed, amount), proof, s) = root

(***************************************************************************)
(* BigNumber hex strings: "0x" and an even number of hex digits            *)
(***************************************************************************)
RECURSIVE HexDigits(_)
HexDigits(n) == IF n < 16 THEN <<n>> ELSE HexDigits(n \div 16) \o <<n % 16>>

toHexString(n) ==
    LET d == HexDigits(n) IN IF Len(d) % 2 = 1 THEN <<0>> \o d ELSE d

RECURSIVE HexValue(_, _)
HexValue(acc, digits) ==
    IF digits = <<>> THEN acc ELSE HexValue(acc * 16 + Head(digits), Tail(digits))

\* BigNumber.from(hexString)
BigNumberFrom(h) == HexValue(0, h)

(***************************************************************************)
(* parse-string-balance-map.ts                                             *)
(***************************************************************************)
NoClaims == [k \in {} |-> 0]

ParseError(msg) ==
    [ok |-> FALSE, err |-> msg, merkleRoot |-> <<>>, tokenTotal |-> <<>>,
     claims |-> NoClaims]

\* mutant: only negative amounts are refused
RECURSIVE dataByTarget_zero(_, _)
dataByTarget_zero(memo, rest) ==
    IF rest = <<>> THEN [ok |-> TRUE, err |-> "", data |-> memo]
    ELSE LET e == Head(rest) IN
         IF e.hashed \in DOMAIN memo
         THEN [ok |-> FALSE, err |-> "Duplicate target", data |-> memo]
         ELSE IF e.earnings < 0
         THEN [ok |-> FALSE, err |-> "Invalid amount for target", data |-> memo]
         ELSE dataByTarget_zero([k \in DOMAIN memo \cup {e.hashed} |->
                                    IF k = e.hashed THEN e.earnings ELSE memo[k]],
                                Tail(rest))

\* the reduce that builds dataByTarget: first offending entry throws
RECURSIVE dataByTarget(_, _)
dataByTarget(memo, rest) ==
    IF rest = <<>> THEN [ok |-> TRUE, err |-> "", data |-> memo]
    ELSE LET e == Head(rest) IN
         IF e.hashed \in DOMAIN memo
         THEN [ok |-> FALSE, err |-> "Duplicate target", data |-> memo]
         ELSE IF e.earnings <= 0
         THEN [ok |-> FALSE, err |-> "Invalid amount for target", data |-> memo]
         ELSE dataByTarget([k \in DOMAIN memo \cup {e.hashed} |->
                               IF k = e.hashed THEN e.earnings ELSE memo[k]],
                           Tail(rest))

\* Object.keys(dataByTarget).sort()
RECURSIVE SortKeys(_)
SortKeys(S) ==
    IF S = {} THEN <<>>
    ELSE LET m == CHOOSE x \in S : \A y \in S \ {x} : LexLess(x, y)
         IN  <<m>> \o SortKeys(S \ {m})

\* mutant: the identifiers are taken in the order of the input, not sorted
parseStringBalanceMap_unsorted(balances, s) ==
    LET r == dataByTarget(NoClaims, balances) IN
    IF ~r.ok THEN ParseError(r.err)
    ELSE LET sortedAddresses == [i \in DOMAIN balances |-> balances[i].hashed]
             tree == BalanceTree([i \in DOMAIN sortedAddresses |->
                        [hashed |-> sortedAddresses[i],
                         amount |-> r.data[sortedAddresses[i]]]], s)
             indexOf(h) == (CHOOSE i \in DOMAIN sortedAddresses :
                               sortedAddresses[i] = h) - 1
         IN [ok |-> TRUE, err |-> "",
             merkleRoot |-> getHexRoot(tree),
             tokenTotal |-> toHexString(SumSeq([i \in DOMAIN sortedAddresses |->
                                r.data[sortedAddresses[i]]])),
             claims |-> [h \in DOMAIN r.data |->
                 [index |-> indexOf(h),
                  amount |-> toHexString(r.data[h]),
                  proof |-> BalanceTreeGetProof(tree, indexOf(h), h, r.data[h])]]]

\* mutant: the total is folded from the first amount, which is then skipped
parseStringBalanceMap_total(balances, s) ==
    LET r == dataByTarget(NoClaims, balances) IN
    IF ~r.ok THEN ParseError(r.err)
    ELSE LET sortedAddresses == SortKeys(DOMAIN r.data)
             tree == BalanceTree([i \in DOMAIN sortedAddresses |->
                        [hashed |-> sortedAddresses[i],
                         amount |-> r.data[sortedAddresses[i]]]], s)
             indexOf(h) == (CHOOSE i \in DOMAIN sortedAddresses :
                               sortedAddresses[i] = h) - 1
         IN [ok |-> TRUE, err |-> "",
             merkleRoot |-> getHexRoot(tree),
             tokenTotal |-> toHexString(SumSeq([i \in DOMAIN sortedAddresses |->
                                IF i = 1 /\ Len(sortedAddresses) > 1 THEN 0
                                ELSE r.data[sortedAddresses[i]]])),
             claims |-> [h \in DOMAIN r.data |->
                 [index |-> indexOf(h),
                  amount |-> toHexString(r.data[h]),
                  proof |-> BalanceTreeGetProof(tree, indexOf(h), h, r.data[h])]]]

parseStringBalanceMap(balances, s) ==
    LET r == dataByTarget(NoClaims, balances) IN
    IF ~r.ok THEN ParseError(r.err)
    ELSE LET sortedAddresses == SortKeys(DOMAIN r.data)
             tree == BalanceTree([i \in DOMAIN sortedAddresses |->
                        [hashed |-> sortedAddresses[i],
                         amount |-> r.data[sortedAddresses[i]]]], s)
             indexOf(h) == (CHOOSE i \in DOMAIN sortedAddresses :
                               sortedAddresses[i] = h) - 1
         IN [ok |-> TRUE, err |-> "",
             merkleRoot |-> getHexRoot(tree),
             tokenTotal |-> toHexString(SumSeq([i \in DOMAIN sortedAddresses |->
                                r.data[sortedAddresses[i]]])),
             claims |-> [h \in DOMAIN r.data |->
                 [index |-> indexOf(h),
                  amount |-> toHexString(r.data[h]),
                  proof |-> BalanceTreeGetProof(tree, indexOf(h), h, r.data[h])]]]

(***************************************************************************)
(* ERC20 tokens: OpenZeppelin ERC20 with TestERC20 / FalsyTestERC20        *)
(***************************************************************************)
Registry == 0
Wallets == {1, 2}
Creator == 3
Accounts == Wallets \cup {Registry, Creator}
\* the address of a deployed StringMerkleDistributor
Distributor == 4
\* a contract that forwards a wallet's call to claim: msg.sender is the
\* contract, tx.origin the wallet
Relay == 5
NoToken == "0x0"
Tokens == {"TKN", "FLS"}
FalsyTokens == {"FLS"}
\* a token whose transfer hands control to the recipient before it returns
HookTokens == {"HKT"}

CallResult(reverted, msg, ret, bal, allow) ==
    [reverted |-> reverted, msg |-> msg, ret |-> ret, bal |-> bal, allow |-> allow]

\* ERC20._transfer
ERC20_transfer(bal, allow, token, sender, recipient, amount) ==
    IF bal[token][sender] < amount
    THEN CallResult(TRUE, "ERC20: transfer amount exceeds balance", FALSE, bal, allow)
    ELSE CallResult(FALSE, "", TRUE,
                    [bal EXCEPT ![token][sender] = @ - amount,
                                ![token][recipient] = @ + amount], allow)

\* token.transfer(recipient, amount) called by sender; FalsyTestERC20
\* transfers and then returns false
transfer(bal, allow, token, sender, recipient, amount) ==
    IF token \notin Tokens \cup HookTokens THEN CallResult(TRUE, "", FALSE, bal, allow)
    ELSE LET r == ERC20_transfer(bal, allow, token, sender, recipient, amount) IN
         IF r.reverted THEN r
         ELSE [r EXCEPT !.ret = token \notin FalsyTokens]

\* mutant: the allowance is not checked
transferFrom_noAllowance(bal, allow, token, sender, recipient, amount) ==
    IF token \notin Tokens \cup HookTokens THEN CallResult(TRUE, "", FALSE, bal, allow)
    ELSE LET r == ERC20_transfer(bal, allow, token, sender, recipient, amount) IN
         IF r.reverted THEN r
         ELSE [r EXCEPT !.allow = [allow EXCEPT ![token][sender] =
                                       IF @ < amount THEN 0 ELSE @ - amount]]

\* token.transferFrom(sender, recipient, amount) called by spender = Registry
transferFrom(bal, allow, token, sender, recipient, amount) ==
    IF token \notin Tokens \cup HookTokens THEN CallResult(TRUE, "", FALSE, bal, allow)
    ELSE LET r == ERC20_transfer(bal, allow, token, sender, recipient, amount) IN
         IF r.reverted THEN r
         ELSE IF allow[token][sender] < amount
         THEN CallResult(TRUE, "ERC20: transfer amount exceeds allowance", FALSE, bal, allow)
         ELSE [r EXCEPT !.allow = [allow EXCEPT ![token][sender] = @ - amount]]

\* TestERC20.setBalance(to, amount): mints or burns to reach amount
setBalance(bal, token, to, amount) == [bal EXCEPT ![token][to] = amount]

(***************************************************************************)
(* MerkleProof.verify (OpenZeppelin 3.4.0)                                 *)
(***************************************************************************)
RECURSIVE processProof(_, _, _)
processProof(computedHash, proof, s) ==
    IF proof = <<>> THEN computedHash
    ELSE LET proofElement == Head(proof) IN
         processProof(IF ~BufLess(proofElement, computedHash, s)
                      THEN keccak256(computedHash \o proofElement)
                      ELSE keccak256(proofElement \o computedHash),
                      Tail(proof), s)

MerkleProof_verify(proof, root, leaf, s) == processProof(leaf, proof, s) = root

(***************************************************************************)
(* MerkleDistributorManager                                                *)
(***************************************************************************)
CampaignIds == 0..(MaxCampaigns + 1)
\* the ids callers submit: 0, created ones, and ones not yet created
ClaimIds == 0..MaxCampaigns
WordIndexes == 0..1

EmptyDistribution == [token |-> NoToken, merkleRoot |-> ZERO_BYTES32, remainingAmount |-> 0]

\* mutant: one bitmap for all campaigns
isClaimed_shared(bitmap, campaignId, index) ==
    \E c \in DOMAIN bitmap : {index % WordBits} \subseteq bitmap[c][index \div WordBits]

\* a 256-bit word is the set of its one bits
isClaimed(bitmap, campaignId, index) ==
    LET claimedWordIndex == index \div WordBits
        claimedBitIndex == index % WordBits
        claimedWord == bitmap[campaignId][claimedWordIndex]
        mask == {claimedBitIndex}
    IN  claimedWord \cap mask = mask

\* mutant: the word is overwritten with the new bit instead of or-ed with it
_setClaimed_overwrite(bitmap, campaignId, index) ==
    [bitmap EXCEPT ![campaignId][index \div WordBits] = {index % WordBits}]

\* mutant: the word index is dropped
_setClaimed_oneWord(bitmap, campaignId, index) ==
    [bitmap EXCEPT ![campaignId][0] = @ \cup {index % WordBits}]

_setClaimed(bitmap, campaignId, index) ==
    LET claimedWordIndex == index \div WordBits
        claimedBitIndex == index % WordBits
    IN  [bitmap EXCEPT ![campaignId][claimedWordIndex] = @ \cup {claimedBitIndex}]

ErrAlreadyClaimed == "MerkleDistributor: Drop already claimed."
ErrInsufficient == "MerkleDistributor: Insufficient token."
ErrInvalidProof == "MerkleDistributor: Invalid proof."
ErrTransferFailed == "MerkleDistributor: Transfer failed."

\* event Claimed(campaignId, index, account, amount)
Claimed(campaignId, index, account, amount) ==
    [campaignId |-> campaignId, index |-> index, account |-> account, amount |-> amount]

\* emit: the log is kept as a bag of events
emit(log, e) == log (+) SetToBag({e})

Revert(w, msg) == [ok |-> FALSE, err |-> msg, w |-> w]
Return(w) == [ok |-> TRUE, err |-> "", w |-> w]

\* mutant: remainingAmount is not decremented
claim_noDecrement(w, campaignId, index, account, amount, merkleProof) ==
    IF isClaimed(w.claimedBitMap, campaignId, index) THEN Revert(w, ErrAlreadyClaimed)
    ELSE LET dist == w.distributionMap[campaignId] IN
    IF ~(amount <= dist.remainingAmount) THEN Revert(w, ErrInsufficient)
    ELSE LET node == keccak256(<<index>> \o AddrBytes(account) \o <<amount>>) IN
    IF ~MerkleProof_verify(merkleProof, dist.merkleRoot, node, w.salt)
    THEN Revert(w, ErrInvalidProof)
    ELSE LET marked == _setClaimed(w.claimedBitMap, campaignId, index)
             t == transfer(w.balanceOf, w.allowance, dist.token, Registry, account, amount)
         IN  IF t.reverted THEN Revert(w, t.msg)
             ELSE IF ~t.ret THEN Revert(w, ErrTransferFailed)
             ELSE Return([w EXCEPT !.events = emit(@, Claimed(campaignId, index, account, amount)),
                                   !.claimedBitMap = marked, !.balanceOf = t.bal])

\* mutant: the index is not marked as claimed
claim_noSetClaimed(w, campaignId, index, account, amount, merkleProof) ==
    IF isClaimed(w.claimedBitMap, campaignId, index) THEN Revert(w, ErrAlreadyClaimed)
    ELSE LET dist == w.distributionMap[campaignId] IN
    IF ~(amount <= dist.remainingAmount) THEN Revert(w, ErrInsufficient)
    ELSE LET node == keccak256(<<index>> \o AddrBytes(account) \o <<amount>>) IN
    IF ~MerkleProof_verify(merkleProof, dist.merkleRoot, node, w.salt)
    THEN Revert(w, ErrInvalidProof)
    ELSE LET t == transfer(w.balanceOf, w.allowance, dist.token, Registry, account, amount)
         IN  IF t.reverted THEN Revert(w, t.msg)
             ELSE IF ~t.ret THEN Revert(w, ErrTransferFailed)
             ELSE Return([w EXCEPT !.events = emit(@, Claimed(campaignId, index, account, amount)),
                                   !.balanceOf = t.bal,
                                   !.distributionMap[campaignId].remainingAmount = @ - amount])

\* mutant: no check of amount against remainingAmount
claim_noRemainingCheck(w, campaignId, index, account, amount, merkleProof) ==
    IF isClaimed(w.claimedBitMap, campaignId, index) THEN Revert(w, ErrAlreadyClaimed)
    ELSE LET dist == w.distributionMap[campaignId]
             node == keccak256(<<index>> \o AddrBytes(account) \o <<amount>>) IN
    IF ~MerkleProof_verify(merkleProof, dist.merkleRoot, node, w.salt)
    THEN Revert(w, ErrInvalidProof)
    ELSE LET marked == _setClaimed(w.claimedBitMap, campaignId, index)
             t == transfer(w.balanceOf, w.allowance, dist.token, Registry, account, amount)
         IN  IF t.reverted THEN Revert(w, t.msg)
             ELSE IF ~t.ret THEN Revert(w, ErrTransferFailed)
             ELSE Return([w EXCEPT !.events = emit(@, Claimed(campaignId, index, account, amount)),
                                   !.claimedBitMap = marked,
                                   !.balanceOf = t.bal,
                                   !.distributionMap[campaignId].remainingAmount =
                                       IF @ >= amount THEN @ - amount ELSE 0])

\* mutant: the record of a campaign is deleted when nothing remains
claim_retire(w, campaignId, index, account, amount, merkleProof) ==
    IF isClaimed(w.claimedBitMap, campaignId, index) THEN Revert(w, ErrAlreadyClaimed)
    ELSE LET dist == w.distributionMap[campaignId] IN
    IF ~(amount <= dist.remainingAmount) THEN Revert(w, ErrInsufficient)
    ELSE LET node == keccak256(<<index>> \o AddrBytes(account) \o <<amount>>) IN
    IF ~MerkleProof_verify(merkleProof, dist.merkleRoot, node, w.salt)
    THEN Revert(w, ErrInvalidProof)
    ELSE LET marked == _setClaimed(w.claimedBitMap, campaignId, index)
             t == transfer(w.balanceOf, w.allowance, dist.token, Registry, account, amount)
         IN  IF t.reverted THEN Revert(w, t.msg)
             ELSE IF ~t.ret THEN Revert(w, ErrTransferFailed)
             ELSE Return([w EXCEPT !.events = emit(@, Claimed(campaignId, index, account, amount)),
                                   !.claimedBitMap = marked,
                                   !.balanceOf = t.bal,
                                   !.distributionMap[campaignId] =
                                       IF dist.remainingAmount = amount THEN EmptyDistribution
                                       ELSE [dist EXCEPT !.remainingAmount = @ - amount]])

\* mutant: the proof is not verified
claim_noProofCheck(w, campaignId, index, account, amount, merkleProof) ==
    IF isClaimed(w.claimedBitMap, campaignId, index) THEN Revert(w, ErrAlreadyClaimed)
    ELSE LET dist == w.distributionMap[campaignId] IN
    IF ~(amount <= dist.remainingAmount) THEN Revert(w, ErrInsufficient)
    ELSE LET marked == _setClaimed(w.claimedBitMap, campaignId, index)
             t == transfer(w.balanceOf, w.allowance, dist.token, Registry, account, amount)
         IN  IF t.reverted THEN Revert(w, t.msg)
             ELSE IF ~t.ret THEN Revert(w, ErrTransferFailed)
             ELSE Return([w EXCEPT !.events = emit(@, Claimed(campaignId, index, account, amount)),
                                   !.claimedBitMap = marked,
                                   !.balanceOf = t.bal,
                                   !.distributionMap[campaignId].remainingAmount = @ - amount])

\* mutant: the proof is checked before remainingAmount
claim_proofFirst(w, campaignId, index, account, amount, merkleProof) ==
    IF isClaimed(w.claimedBitMap, campaignId, index) THEN Revert(w, ErrAlreadyClaimed)
    ELSE LET dist == w.distributionMap[campaignId]
             node == keccak256(<<index>> \o AddrBytes(account) \o <<amount>>) IN
    IF ~MerkleProof_verify(merkleProof, dist.merkleRoot, node, w.salt)
    THEN Revert(w, ErrInvalidProof)
    ELSE IF ~(amount <= dist.remainingAmount) THEN Revert(w, ErrInsufficient)
    ELSE LET marked == _setClaimed(w.claimedBitMap, campaignId, index)
             t == transfer(w.balanceOf, w.allowance, dist.token, Registry, account, amount)
         IN  IF t.reverted THEN Revert(w, t.msg)
             ELSE IF ~t.ret THEN Revert(w, ErrTransferFailed)
             ELSE Return([w EXCEPT !.events = emit(@, Claimed(campaignId, index, account, amount)),
                                   !.claimedBitMap = marked,
                                   !.balanceOf = t.bal,
                                   !.distributionMap[campaignId].remainingAmount = @ - amount])

\* mutant: no Claimed event is emitted
claim_noEvent(w, campaignId, index, account, amount, merkleProof) ==
    IF isClaimed(w.claimedBitMap, campaignId, index) THEN Revert(w, ErrAlreadyClaimed)
    ELSE LET dist == w.distributionMap[campaignId] IN
    IF ~(amount <= dist.remainingAmount) THEN Revert(w, ErrInsufficient)
    ELSE LET node == keccak256(<<index>> \o AddrBytes(account) \o <<amount>>) IN
    IF ~MerkleProof_verify(merkleProof, dist.merkleRoot, node, w.salt)
    THEN Revert(w, ErrInvalidProof)
    ELSE LET marked == _setClaimed(w.claimedBitMap, campaignId, index)
             t == transfer(w.balanceOf, w.allowance, dist.token, Registry, account, amount)
         IN  IF t.reverted THEN Revert(w, t.msg)
             ELSE IF ~t.ret THEN Revert(w, ErrTransferFailed)
             ELSE Return([w EXCEPT !.claimedBitMap = marked,
                                   !.balanceOf = t.bal,
                                   !.distributionMap[campaignId].remainingAmount = @ - amount])

\* mutant: the tokens go to wallet 1 whichever account the leaf names
claim_payWallet(w, campaignId, index, account, amount, merkleProof) ==
    IF isClaimed(w.claimedBitMap, campaignId, index)
    THEN Revert(w, ErrAlreadyClaimed)
    ELSE LET dist == w.distributionMap[campaignId] IN
    IF ~(amount <= dist.remainingAmount)
    THEN Revert(w, ErrInsufficient)
    ELSE LET node == keccak256(<<index>> \o AddrBytes(account) \o <<amount>>) IN
    IF ~MerkleProof_verify(merkleProof, dist.merkleRoot, node, w.salt)
    THEN Revert(w, ErrInvalidProof)
    ELSE LET marked == _setClaimed(w.claimedBitMap, campaignId, index)
             t == transfer(w.balanceOf, w.allowance, dist.token, Registry, 1, amount)
         IN  IF t.reverted THEN Revert(w, t.msg)
             ELSE IF ~t.ret THEN Revert(w, ErrTransferFailed)
             ELSE Return([w EXCEPT !.events = emit(@, Claimed(campaignId, index, account, amount)),
                                   !.claimedBitMap = marked,
                                   !.balanceOf = t.bal,
                                   !.distributionMap[campaignId].remainingAmount = @ - amount])

\* MerkleDistributorManager.claim(campaignId, index, account, amount, merkleProof)
claim(w, campaignId, index, account, amount, merkleProof) ==
    IF isClaimed(w.claimedBitMap, campaignId, index)
    THEN Revert(w, ErrAlreadyClaimed)
    ELSE LET dist == w.distributionMap[campaignId] IN
    IF ~(amount <= dist.remainingAmount)
    THEN Revert(w, ErrInsufficient)
    ELSE LET node == keccak256(<<index>> \o AddrBytes(account) \o <<amount>>) IN
    IF ~MerkleProof_verify(merkleProof, dist.merkleRoot, node, w.salt)
    THEN Revert(w, ErrInvalidProof)
    ELSE LET marked == _setClaimed(w.claimedBitMap, campaignId, index)
             t == transfer(w.balanceOf, w.allowance, dist.token, Registry, account, amount)
         IN  IF t.reverted THEN Revert(w, t.msg)
             ELSE IF ~t.ret THEN Revert(w, ErrTransferFailed)
             ELSE Return([w EXCEPT !.events = emit(@, Claimed(campaignId, index, account, amount)),
                                   !.claimedBitMap = marked,
                                   !.balanceOf = t.bal,
                                   !.distributionMap[campaignId].remainingAmount = @ - amount])

\* uint256 arithmetic without SafeMath wraps; the word is UintBits wide here
UintBits == 16
uintSub(a, b) == (a - b) % (2 ^ UintBits)

\* MerkleDistributorManager.claim from the return of token.transfer on:
\* dist.remainingAmount = dist.remainingAmount - amount
claim_afterTransfer(w, campaignId, index, account, amount) ==
    [w EXCEPT !.distributionMap[campaignId].remainingAmount = uintSub(@, amount),
              !.events = emit(@, Claimed(campaignId, index, account, amount))]

\* mutant: the index is not marked before token.transfer is called
claim_upToTransfer_unmarked(w, campaignId, index, account, amount, merkleProof) ==
    IF isClaimed(w.claimedBitMap, campaignId, index)
    THEN Revert(w, ErrAlreadyClaimed)
    ELSE LET dist == w.distributionMap[campaignId] IN
    IF ~(amount <= dist.remainingAmount)
    THEN Revert(w, ErrInsufficient)
    ELSE LET node == keccak256(<<index>> \o AddrBytes(account) \o <<amount>>) IN
    IF ~MerkleProof_verify(merkleProof, dist.merkleRoot, node, w.salt)
    THEN Revert(w, ErrInvalidProof)
    ELSE LET t == transfer(w.balanceOf, w.allowance, dist.token, Registry, account, amount)
         IN  IF t.reverted THEN Revert(w, t.msg)
             ELSE Return([w EXCEPT !.balanceOf = t.bal])

\* MerkleDistributorManager.claim up to the moment token.transfer has moved
\* the balance and hands control to the recipient
claim_upToTransfer(w, campaignId, index, account, amount, merkleProof) ==
    IF isClaimed(w.claimedBitMap, campaignId, index)
    THEN Revert(w, ErrAlreadyClaimed)
    ELSE LET dist == w.distributionMap[campaignId] IN
    IF ~(amount <= dist.remainingAmount)
    THEN Revert(w, ErrInsufficient)
    ELSE LET node == keccak256(<<index>> \o AddrBytes(account) \o <<amount>>) IN
    IF ~MerkleProof_verify(merkleProof, dist.merkleRoot, node, w.salt)
    THEN Revert(w, ErrInvalidProof)
    ELSE LET marked == _setClaimed(w.claimedBitMap, campaignId, index)
             t == transfer(w.balanceOf, w.allowance, dist.token, Registry, account, amount)
         IN  IF t.reverted THEN Revert(w, t.msg)
             ELSE Return([w EXCEPT !.claimedBitMap = marked, !.balanceOf = t.bal])

\* mutant: the value returned by transfer is ignored
claimString_ignoreReturn(w, sender, distributionId, index, target, amount, merkleProof) ==
    IF isClaimed(w.claimedBitMap, distributionId, index) THEN Revert(w, ErrAlreadyClaimed)
    ELSE LET dist == w.distributionMap[distributionId] IN
    IF ~(amount <= dist.remainingAmount) THEN Revert(w, ErrInsufficient)
    ELSE LET node == keccak256(<<index>> \o target \o <<amount>>) IN
    IF ~MerkleProof_verify(merkleProof, dist.merkleRoot, node, w.salt)
    THEN Revert(w, ErrInvalidProof)
    ELSE LET marked == _setClaimed(w.claimedBitMap, distributionId, index)
             t == transfer(w.balanceOf, w.allowance, dist.token, Registry, sender, amount)
         IN  IF t.reverted THEN Revert(w, t.msg)
             ELSE Return([w EXCEPT !.events = emit(@, Claimed(distributionId, index, sender, amount)),
                                   !.claimedBitMap = marked,
                                   !.balanceOf = t.bal,
                                   !.distributionMap[distributionId].remainingAmount = @ - amount])

\* StringMerkleDistributorManager.claim(distributionId, index, target, amount,
\* merkleProof) called by sender
claimString(w, sender, distributionId, index, target, amount, merkleProof) ==
    IF isClaimed(w.claimedBitMap, distributionId, index)
    THEN Revert(w, ErrAlreadyClaimed)
    ELSE LET dist == w.distributionMap[distributionId] IN
    IF ~(amount <= dist.remainingAmount)
    THEN Revert(w, ErrInsufficient)
    ELSE LET node == keccak256(<<index>> \o target \o <<amount>>) IN
    IF ~MerkleProof_verify(merkleProof, dist.merkleRoot, node, w.salt)
    THEN Revert(w, ErrInvalidProof)
    ELSE LET marked == _setClaimed(w.claimedBitMap, distributionId, index)
             t == transfer(w.balanceOf, w.allowance, dist.token, Registry, sender, amount)
         IN  IF t.reverted THEN Revert(w, t.msg)
             ELSE IF ~t.ret THEN Revert(w, ErrTransferFailed)
             ELSE Return([w EXCEPT !.events = emit(@, Claimed(distributionId, index, sender, amount)),
                                   !.claimedBitMap = marked,
                                   !.balanceOf = t.bal,
                                   !.distributionMap[distributionId].remainingAmount = @ - amount])

\* mutant: the id counter is not advanced
addDistribution_sameId(w, sender, token, merkleRoot, allocatedAmount) ==
    LET t == transferFrom(w.balanceOf, w.allowance, token, sender, Registry, allocatedAmount) IN
    IF t.reverted THEN Revert(w, t.msg)
    ELSE Return([w EXCEPT !.distributionMap[w.nextDistributionId] =
                              [token |-> token, merkleRoot |-> merkleRoot,
                               remainingAmount |-> allocatedAmount],
                          !.balanceOf = t.bal,
                          !.allowance = t.allow])

\* addDistribution(token, merkleRoot, allocatedAmount, ...) called by sender
addDistribution(w, sender, token, merkleRoot, allocatedAmount) ==
    LET t == transferFrom(w.balanceOf, w.allowance, token, sender, Registry, allocatedAmount) IN
    IF t.reverted THEN Revert(w, t.msg)
    ELSE Return([w EXCEPT !.distributionMap[w.nextDistributionId] =
                              [token |-> token, merkleRoot |-> merkleRoot,
                               remainingAmount |-> allocatedAmount],
                          !.nextDistributionId = @ + 1,
                          !.balanceOf = t.bal,
                          !.allowance = t.allow])

(***************************************************************************)
(* State                                                                   *)
(***************************************************************************)
VARIABLES
    salt,                \* which total order the digests have
    nextDistributionId,  \* registry: next campaign id
    distributionMap,     \* registry: id -> {token, merkleRoot, remainingAmount}
    claimedBitMap,       \* registry: id -> word index -> 256-bit word
    balanceOf,           \* tokens: token -> account -> balance
    allowance,           \* tokens: token -> owner -> allowance of the registry
    deposited,           \* history: id -> amount given to addDistribution
    claimedSum,          \* history: id -> sum of the amounts of successful claims
    succeeded,           \* history: (id, index) pairs of successful claims
    last,                \* history: the last call and its outcome
    balances,            \* parser: the input of parseStringBalanceMap
    info,                \* parser: its output
    verified,            \* parser: identifier -> result of BalanceTree.verifyProof
    stack,               \* calls of claim that wait for the token's transfer to return
    events,              \* the log: a bag of Claimed events
    distributor,         \* the single-campaign StringMerkleDistributor's storage
    treeManager          \* the tree registry: nextTreeId and merkleRootMap

chainVars == <<nextDistributionId, distributionMap, claimedBitMap, balanceOf, allowance, events>>
histVars == <<deposited, claimedSum, succeeded, last>>
parseVars == <<balances, info, verified>>
vars == <<salt, chainVars, histVars, parseVars, stack, distributor, treeManager>>

World ==
    [salt |-> salt, nextDistributionId |-> nextDistributionId,
     distributionMap |-> distributionMap, claimedBitMap |-> claimedBitMap,
     balanceOf |-> balanceOf, allowance |-> allowance, events |-> events]

Commit(w) ==
    /\ nextDistributionId' = w.nextDistributionId
    /\ distributionMap' = w.distributionMap
    /\ claimedBitMap' = w.claimedBitMap
    /\ balanceOf' = w.balanceOf
    /\ allowance' = w.allowance
    /\ events' = w.events

Salts == 0..MaxSalt

(***************************************************************************)
(* The drop used on chain: three address-keyed leaves, two in one bitmap   *)
(* word and one in the next                                                *)
(***************************************************************************)
DropLeaves ==
    << [index |-> 0, account |-> 1, amount |-> 1],
       [index |-> 1, account |-> 2, amount |-> 2],
       [index |-> WordBits, account |-> 1, amount |-> 1] >>

DropNode(l) == keccak256(<<l.index>> \o AddrBytes(l.account) \o <<l.amount>>)

DropTree == [s \in Salts |-> MerkleTree([i \in DOMAIN DropLeaves |-> DropNode(DropLeaves[i])], s)]

DropProof == [s \in Salts |-> [i \in DOMAIN DropLeaves |-> getProof(DropTree[s], DropNode(DropLeaves[i]))]]

DropRoot == [s \in Salts |-> getRoot(DropTree[s])]

Roots(s) == {ZERO_BYTES32, DropRoot[s]}

Indexes == {DropLeaves[i].index : i \in DOMAIN DropLeaves}
ClaimAmounts == {DropLeaves[i].amount : i \in DOMAIN DropLeaves}
Proofs(s) == {DropProof[s][i] : i \in DOMAIN DropLeaves} \cup {<<>>}
DepositAmounts == {1, MaxBalance}

\* the request that belongs to leaf i of the drop
DropClaim(i, s) ==
    [index |-> DropLeaves[i].index, account |-> DropLeaves[i].account,
     amount |-> DropLeaves[i].amount, proof |-> DropProof[s][i]]

DropClaims == [s \in Salts |-> {DropClaim(i, s) : i \in DOMAIN DropLeaves}]

\* every (index, account, amount, proof) over the values of the drop
AllClaimInputs == [s \in Salts |->
    [index : Indexes, account : Wallets, amount : ClaimAmounts, proof : Proofs(s)]]

\* what callers submit: a request of the drop, or one with one field replaced
ClaimInputs == [s \in Salts |->
    {in \in AllClaimInputs[s] : \E v \in DropClaims[s] :
        Cardinality({f \in {"index", "account", "amount", "proof"} : in[f] # v[f]}) <= 1}]

(***************************************************************************)
(* IMerkleTreeManager: the registry of tree roots                          *)
(***************************************************************************)
\* the width of a tree id; uint64 in the contract
TreeIdBits == 3
MaxTreeId == 2 ^ TreeIdBits - 1
TreeIds == 0..MaxTreeId

ErrAdditionOverflow == "SafeMath: addition overflow"

\* SafeMath64.add(a, b): the sum in the width of a tree id, checked
SafeMath64_add(a, b) ==
    LET c == (a + b) % (2 ^ TreeIdBits) IN
    IF c >= a THEN [reverted |-> FALSE, value |-> c]
    ELSE [reverted |-> TRUE, value |-> 0]

\* the storage at deployment: uint64 public nextTreeId = 1, no root
IMerkleTreeManager ==
    [nextTreeId |-> 1, merkleRootMap |-> [id \in TreeIds |-> ZERO_BYTES32]]

TreeRevert(m, msg) == [ok |-> FALSE, err |-> msg, m |-> m]
TreeReturn(m) == [ok |-> TRUE, err |-> "", m |-> m]

\* mutant: the id is raised without the overflow check
addTree_unchecked(m, newMerkleRoot) ==
    TreeReturn([m EXCEPT !.merkleRootMap[m.nextTreeId] = newMerkleRoot,
                         !.nextTreeId = (@ + 1) % (2 ^ TreeIdBits)])

\* addTree(newMerkleRoot): a revert of the addition undoes the store
addTree(m, newMerkleRoot) ==
    LET stored == [m EXCEPT !.merkleRootMap[m.nextTreeId] = newMerkleRoot]
        next == SafeMath64_add(stored.nextTreeId, 1)
    IN  IF next.reverted THEN TreeRevert(m, ErrAdditionOverflow)
        ELSE TreeReturn([stored EXCEPT !.nextTreeId = next.value])

NoCall == [op |-> "none", err |-> ""]

\* no StringMerkleDistributor is deployed
NoDistributor ==
    [token |-> NoToken, merkleRoot |-> ZERO_BYTES32,
     claimedBitMap |-> [x \in WordIndexes |-> {}]]

InitChain ==
    /\ nextDistributionId = 1
    /\ distributionMap = [c \in CampaignIds |-> EmptyDistribution]
    /\ claimedBitMap = [c \in CampaignIds |-> [x \in WordIndexes |-> {}]]
    /\ balanceOf = [t \in Tokens \cup HookTokens |-> [a \in Accounts \cup {Distributor, Relay} |-> 0]]
    /\ allowance = [t \in Tokens \cup HookTokens |-> [a \in Accounts |-> 0]]
    /\ deposited = [c \in CampaignIds |-> 0]
    /\ claimedSum = [c \in CampaignIds |-> 0]
    /\ succeeded = {}
    /\ last = NoCall
    /\ stack = <<>>
    /\ events = EmptyBag
    /\ treeManager = IMerkleTreeManager

InitParseIdle ==
    /\ balances = <<>>
    /\ info = ParseError("not run")
    /\ verified = NoClaims

Init ==
    /\ salt = 0
    /\ InitChain
    /\ distributor = NoDistributor
    /\ InitParseIdle

(***************************************************************************)
(* Transactions on the address-keyed registry                              *)
(***************************************************************************)
\* the creator tops up a balance, and renews an approval, that was drawn on
SetBalance(token, to, amount) ==
    /\ nextDistributionId <= MaxCampaigns
    /\ balanceOf[token][to] < amount
    /\ balanceOf' = setBalance(balanceOf, token, to, amount)
    /\ last' = [op |-> "setBalance", err |-> ""]
    /\ UNCHANGED <<salt, events, nextDistributionId, distributionMap, claimedBitMap, allowance,
                   deposited, claimedSum, succeeded, parseVars, stack, distributor, treeManager>>

Approve(token, owner, amount) ==
    /\ nextDistributionId <= MaxCampaigns
    /\ allowance[token][owner] < amount
    /\ allowance' = [allowance EXCEPT ![token][owner] = amount]
    /\ last' = [op |-> "approve", err |-> ""]
    /\ UNCHANGED <<salt, events, nextDistributionId, distributionMap, claimedBitMap, balanceOf,
                   deposited, claimedSum, succeeded, parseVars, stack, distributor, treeManager>>

AddDistribution(sender, token, merkleRoot, amount) ==
    /\ nextDistributionId <= MaxCampaigns
    /\ LET r == addDistribution(World, sender, token, merkleRoot, amount) IN
       /\ Commit(r.w)
       /\ deposited' = IF r.ok THEN [deposited EXCEPT ![nextDistributionId] = amount]
                       ELSE deposited
       /\ last' = [op |-> "addDistribution", err |-> r.err]
    /\ UNCHANGED <<salt, claimedSum, succeeded, parseVars, stack, distributor, treeManager>>

Claim(campaignId, index, account, amount, merkleProof) ==
    /\ LET r == claim(World, campaignId, index, account, amount, merkleProof) IN
       /\ Commit(r.w)
       /\ claimedSum' = IF r.ok THEN [claimedSum EXCEPT ![campaignId] = @ + amount]
                        ELSE claimedSum
       /\ succeeded' = IF r.ok THEN succeeded \cup {<<campaignId, index>>} ELSE succeeded
       /\ last' = [op |-> "claim", err |-> r.err]
    /\ UNCHANGED <<salt, deposited, parseVars, stack, distributor, treeManager>>

Next ==
    \/ \E t \in Tokens : SetBalance(t, Creator, MaxBalance)
    \/ \E t \in Tokens : Approve(t, Creator, MaxBalance)
    \/ \E t \in Tokens, root \in Roots(salt), amount \in DepositAmounts :
           AddDistribution(Creator, t, root, amount)
    \/ \E c \in ClaimIds, in \in ClaimInputs[salt] :
           Claim(c, in.index, in.account, in.amount, in.proof)

Spec == Init /\ [][Next]_vars

(***************************************************************************)
(* Properties of the address-keyed registry                                *)
(***************************************************************************)
\* the campaigns created so far
Created == 1..(nextDistributionId - 1)

\* the requests on one index
InputsOn(index) == {in \in AllClaimInputs[salt] : in.index = index}

\* C1: once a claim on (campaign, index) has succeeded, every later claim on
\* that pair, whatever its account, amount and proof, reverts with
\* 'MerkleDistributor: Drop already claimed.'
C1_AtMostOnce ==
    \A p \in succeeded : \A in \in InputsOn(p[2]) :
        LET r == claim(World, p[1], in.index, in.account, in.amount, in.proof) IN
            ~r.ok /\ r.err = ErrAlreadyClaimed

\* a second claim on a paid index of the second bitmap word has just reverted
C1_Witness ==
    /\ \E p \in succeeded : p[2] = WordBits
    /\ last = [op |-> "claim", err |-> ErrAlreadyClaimed]

\* C2: for every campaign, remainingAmount is the deposit minus the sum of
\* the successful claims, and that sum never exceeds the deposit
C2_Conservation ==
    \A c \in Created :
        /\ distributionMap[c].remainingAmount = deposited[c] - claimedSum[c]
        /\ claimedSum[c] <= deposited[c]
        /\ distributionMap[c].remainingAmount >= 0

\* a campaign partly paid out, with claims of two indexes
C2_Witness ==
    \E c \in Created :
        /\ claimedSum[c] > 1
        /\ claimedSum[c] < deposited[c]
        /\ Cardinality({p \in succeeded : p[1] = c}) >= 2

\* the world in which campaign c is as it was created
Pristine(w, c) ==
    [w EXCEPT !.distributionMap[c].remainingAmount = deposited[c],
              !.claimedBitMap[c] = [x \in WordIndexes |-> {}]]

\* C3: a claim on one campaign leaves the record and the claimed bits of
\* every other campaign as they were, its outcome does not depend on what was
\* claimed from the other campaigns, and a request of the drop that was paid
\* in one campaign is still paid in another campaign of the same root
C3_Isolation ==
    \A a \in ClaimIds : \A in \in ClaimInputs[salt] :
        LET r == claim(World, a, in.index, in.account, in.amount, in.proof) IN
        /\ \A b \in CampaignIds \ {a} :
              /\ r.w.distributionMap[b] = distributionMap[b]
              /\ r.w.claimedBitMap[b] = claimedBitMap[b]
              /\ claim(Pristine(World, b), a, in.index, in.account, in.amount, in.proof).err
                     = r.err
        /\ ( /\ a \in Created
             /\ in \in DropClaims[salt]
             /\ distributionMap[a].merkleRoot = DropRoot[salt]
             /\ distributionMap[a].token \notin FalsyTokens
             /\ <<a, in.index>> \notin succeeded
             /\ in.amount <= distributionMap[a].remainingAmount
             /\ in.amount <= balanceOf[distributionMap[a].token][Registry] )
           => r.ok

\* the same request paid in both campaigns of one root and one token, the
\* first campaign used up
C3_Witness ==
    /\ nextDistributionId = 3
    /\ distributionMap[1].merkleRoot = DropRoot[salt]
    /\ distributionMap[2].merkleRoot = DropRoot[salt]
    /\ distributionMap[1].token = distributionMap[2].token
    /\ deposited[1] > 0
    /\ distributionMap[1].remainingAmount = 0
    /\ \E i \in Indexes : {<<1, i>>, <<2, i>>} \subseteq succeeded

\* C4 as stated: every valid request for more than its campaign has left
\* reverts with 'MerkleDistributor: Insufficient token.'
C4_AsStated ==
    \A a \in Created : \A in \in DropClaims[salt] :
        ( /\ distributionMap[a].merkleRoot = DropRoot[salt]
          /\ in.amount > distributionMap[a].remainingAmount )
        => claim(World, a, in.index, in.account, in.amount, in.proof).err = ErrInsufficient

\* C4: a valid, unclaimed request for more than its campaign has left reverts
\* with 'MerkleDistributor: Insufficient token.' and changes nothing, however
\* much of the token the registry holds for other campaigns
C4_NoBorrowing ==
    \A a \in Created : \A in \in DropClaims[salt] :
        ( /\ distributionMap[a].merkleRoot = DropRoot[salt]
          /\ <<a, in.index>> \notin succeeded
          /\ in.amount > distributionMap[a].remainingAmount )
        => LET r == claim(World, a, in.index, in.account, in.amount, in.proof) IN
               /\ ~r.ok
               /\ r.err = ErrInsufficient
               /\ r.w = World

\* such a claim has just reverted while another campaign of the same token
\* held enough to pay it
C4_Witness ==
    /\ last = [op |-> "claim", err |-> ErrInsufficient]
    /\ \E a \in Created, b \in Created : \E in \in DropClaims[salt] :
          /\ a # b
          /\ distributionMap[a].token = distributionMap[b].token
          /\ distributionMap[a].merkleRoot = DropRoot[salt]
          /\ <<a, in.index>> \notin succeeded
          /\ in.amount > distributionMap[a].remainingAmount
          /\ in.amount <= distributionMap[b].remainingAmount
          /\ in.amount <= balanceOf[distributionMap[a].token][Registry]

\* what the set bits of campaign c say was paid to account a
PaidByBits(c, a) ==
    SumSeq([k \in DOMAIN DropLeaves |->
        IF isClaimed(claimedBitMap, c, DropLeaves[k].index) /\ DropLeaves[k].account = a
        THEN DropLeaves[k].amount ELSE 0])

\* the three effects of the claims so far agree with one another
ClaimEffectsAgree ==
    /\ \A c \in ClaimIds : \A i \in Indexes :
          isClaimed(claimedBitMap, c, i) <=> <<c, i>> \in succeeded
    /\ \A c \in Created :
          distributionMap[c].remainingAmount =
              deposited[c] - SumSeq([a \in 1..2 |-> PaidByBits(c, a)])
    /\ \A t \in Tokens : \A a \in Wallets :
          balanceOf[t][a] =
              SumSeq([c \in 1..MaxCampaigns |->
                  IF c \in Created /\ distributionMap[c].token = t
                  THEN PaidByBits(c, a) ELSE 0])

\* the step is a successful claim of request in on campaign c
ClaimPaid(c, in) ==
    LET t == distributionMap[c].token IN
    /\ ~isClaimed(claimedBitMap, c, in.index)
    /\ claimedBitMap' =
           [claimedBitMap EXCEPT ![c][in.index \div WordBits] = @ \cup {in.index % WordBits}]
    /\ distributionMap' = [distributionMap EXCEPT ![c].remainingAmount = @ - in.amount]
    /\ balanceOf' = [balanceOf EXCEPT ![t][Registry] = @ - in.amount,
                                      ![t][in.account] = @ + in.amount]
    /\ UNCHANGED <<nextDistributionId, allowance>>

ClaimStepAllOrNothing ==
    last'.op = "claim" =>
        IF last'.err = ""
        THEN \E c \in ClaimIds : \E in \in ClaimInputs[salt] : ClaimPaid(c, in)
        ELSE UNCHANGED chainVars

\* C5: a claim either sets the bit, lowers remainingAmount by the amount and
\* moves the amount from the registry to the account, or reverts and changes
\* nothing; in no state do the three effects disagree
C5_AllOrNothing == []ClaimEffectsAgree /\ [][ClaimStepAllOrNothing]_vars

\* a claim was paid and a later one has reverted
C5_Witness ==
    /\ succeeded # {}
    /\ last.op = "claim"
    /\ last.err = ErrInvalidProof
    /\ \E c \in Created : claimedSum[c] > 0 /\ distributionMap[c].remainingAmount > 0

\* the requests that differ from a request of the drop in exactly one field
Tampered == ClaimInputs[salt] \ DropClaims[salt]

\* C7 as stated: every tampered request reverts with
\* 'MerkleDistributor: Invalid proof.'
C7_AsStated ==
    \A c \in Created : \A in \in Tampered :
        distributionMap[c].merkleRoot = DropRoot[salt] =>
            claim(World, c, in.index, in.account, in.amount, in.proof).err = ErrInvalidProof

\* C7: every tampered request reverts; it reverts with
\* 'MerkleDistributor: Invalid proof.' when its index is unclaimed and its
\* amount is within remainingAmount, and with the error of the earlier check
\* otherwise
C7_TamperRejected ==
    \A c \in Created : \A in \in Tampered :
        distributionMap[c].merkleRoot = DropRoot[salt] =>
            LET r == claim(World, c, in.index, in.account, in.amount, in.proof) IN
            /\ ~r.ok
            /\ r.w = World
            /\ r.err = IF <<c, in.index>> \in succeeded THEN ErrAlreadyClaimed
                       ELSE IF in.amount > distributionMap[c].remainingAmount
                            THEN ErrInsufficient
                            ELSE ErrInvalidProof

\* a tampered request has just been refused for its proof by a campaign that
\* could have paid it
C7_Witness ==
    /\ last = [op |-> "claim", err |-> ErrInvalidProof]
    /\ \E c \in Created : \E in \in Tampered :
          /\ distributionMap[c].merkleRoot = DropRoot[salt]
          /\ <<c, in.index>> \notin succeeded
          /\ in.amount <= distributionMap[c].remainingAmount
          /\ in.amount <= balanceOf[distributionMap[c].token][Registry]
          /\ distributionMap[c].token \notin FalsyTokens

\* a step of the registry keeps the id counter unless it creates a campaign,
\* which is stored under the counter's value and advances it by one
IdStep ==
    /\ IF last'.op = "addDistribution" /\ last'.err = ""
       THEN /\ nextDistributionId' = nextDistributionId + 1
            /\ distributionMap[nextDistributionId] = EmptyDistribution
            /\ distributionMap'[nextDistributionId].remainingAmount
                   = deposited'[nextDistributionId]
            /\ distributionMap'[nextDistributionId].token \in Tokens
       ELSE nextDistributionId' = nextDistributionId
    /\ \A c \in Created :
          /\ distributionMap'[c].token = distributionMap[c].token
          /\ distributionMap'[c].merkleRoot = distributionMap[c].merkleRoot
          /\ deposited'[c] = deposited[c]

\* C10: nextDistributionId starts at 1, a successful addDistribution gives the
\* new campaign the current value and advances it by exactly 1, nothing else
\* changes it, and no id is given to two campaigns
C10_CampaignIds ==
    /\ nextDistributionId = 1
    /\ [](\A c \in CampaignIds : c >= nextDistributionId =>
             distributionMap[c] = EmptyDistribution)
    /\ [][IdStep]_vars

\* ids 1 and 2 were given out, the second one by the last call
C10_Witness ==
    /\ nextDistributionId = 3
    /\ last = [op |-> "addDistribution", err |-> ""]
    /\ distributionMap[1].token # NoToken
    /\ distributionMap[2].token # NoToken
    /\ distributionMap[1] # distributionMap[2]

(***************************************************************************)
(* Runs of the parser: a map is parsed, then each emitted claim is checked *)
(* with BalanceTree.verifyProof                                            *)
(***************************************************************************)
Keys == {hashedUUID(r) : r \in RawStrings}
Earnings == {-1, 0, 1, 300}

BoundedSeq(S, n) == UNION {[1..k -> S] : k \in 1..n}

ParseInputs == BoundedSeq([hashed : Keys, earnings : Earnings], MaxEntries)

NotRun == ParseError("not run")

\* a map is valid when its keys are distinct and its amounts positive
ValidMap(m) ==
    /\ \A i \in DOMAIN m : m[i].earnings > 0
    /\ \A i \in DOMAIN m : \A j \in DOMAIN m : i # j => m[i].hashed # m[j].hashed

\* the proof strings of a claim as buffers: Buffer.from(el.slice(2), 'hex')
ProofBufs(c) == [i \in DOMAIN c.proof |-> hexToBuf(c.proof[i])]

\* BalanceTree.verifyProof on what the parser emitted for identifier h
VerifyEmitted(i, h) ==
    verifyProof(i.claims[h].index, h, BigNumberFrom(i.claims[h].amount),
                ProofBufs(i.claims[h]), hexToBuf(i.merkleRoot), salt)

InitParse ==
    /\ salt \in Salts
    /\ InitChain
    /\ distributor = NoDistributor
    /\ balances \in ParseInputs
    /\ info = NotRun
    /\ verified = NoClaims

ParseMap ==
    /\ info = NotRun
    /\ info' = parseStringBalanceMap(balances, salt)
    /\ UNCHANGED <<salt, chainVars, histVars, stack, distributor, treeManager, balances, verified>>

VerifyClaim(h) ==
    /\ info.ok
    /\ h \in DOMAIN info.claims
    /\ h \notin DOMAIN verified
    /\ verified' = [k \in DOMAIN verified \cup {h} |->
                       IF k = h THEN VerifyEmitted(info, h) ELSE verified[k]]
    /\ UNCHANGED <<salt, chainVars, histVars, stack, distributor, treeManager, balances, info>>

NextParse ==
    \/ ParseMap
    \/ \E h \in Keys : VerifyClaim(h)

SpecParse == InitParse /\ [][NextParse]_vars

\* C8: a valid map is parsed without error into one claim per identifier, and
\* verifyProof is true for every identifier with the index, amount and proof
\* emitted for it and the emitted merkleRoot
C8_RoundTrip ==
    /\ \A h \in DOMAIN verified : verified[h]
    /\ (ValidMap(balances) /\ info # NotRun) =>
          /\ info.ok
          /\ DOMAIN info.claims = {balances[i].hashed : i \in DOMAIN balances}
          /\ \A h \in DOMAIN info.claims : VerifyEmitted(info, h)

\* every claim of a map of MaxEntries entries was verified, the proofs of
\* two of them having different lengths
C8_Witness ==
    /\ info.ok
    /\ Len(balances) = MaxEntries
    /\ DOMAIN verified = DOMAIN info.claims
    /\ \E h \in DOMAIN verified : \E k \in DOMAIN verified :
          Len(info.claims[h].proof) < Len(info.claims[k].proof)

(***************************************************************************)
(* The string-keyed registry: campaigns are created from what the parser   *)
(* emitted for a map keyed by the hashes of raw strings                    *)
(***************************************************************************)
Entry(r, e) == [hashed |-> hashedUUID(r), earnings |-> e]

StringMaps ==
    { <<Entry(1, 1)>>,
      <<Entry(2, 1), Entry(1, 2)>>,
      <<Entry(3, 1), Entry(1, 1), Entry(2, 2)>> }

\* the raw string whose hash is the key h
RawOf(h) == StrBytes(CHOOSE r \in RawStrings : hashedUUID(r) = h)

InitString ==
    /\ salt \in Salts
    /\ InitChain
    /\ distributor = NoDistributor
    /\ balances \in StringMaps
    /\ info = parseStringBalanceMap(balances, salt)
    /\ verified = NoClaims

AddStringDistribution(sender, token) ==
    AddDistribution(sender, token, hexToBuf(info.merkleRoot), BigNumberFrom(info.tokenTotal))

\* sender submits target with the index, amount and proof emitted for key h
ClaimString(sender, distributionId, h, target) ==
    /\ h \in DOMAIN info.claims
    /\ LET c == info.claims[h]
           amount == BigNumberFrom(c.amount)
           r == claimString(World, sender, distributionId, c.index, target, amount,
                            ProofBufs(c))
       IN /\ Commit(r.w)
          /\ claimedSum' = IF r.ok THEN [claimedSum EXCEPT ![distributionId] = @ + amount]
                           ELSE claimedSum
          /\ succeeded' = IF r.ok THEN succeeded \cup {<<distributionId, c.index>>}
                          ELSE succeeded
          /\ last' = [op |-> "claim", err |-> r.err]
    /\ UNCHANGED <<salt, deposited, parseVars, stack, distributor, treeManager>>

NextString ==
    \/ \E t \in Tokens : SetBalance(t, Creator, MaxBalance)
    \/ \E t \in Tokens : Approve(t, Creator, MaxBalance)
    \/ \E t \in Tokens : AddStringDistribution(Creator, t)
    \/ \E sender \in Wallets, c \in ClaimIds, h \in Keys :
           \/ ClaimString(sender, c, h, RawOf(h))
           \/ ClaimString(sender, c, h, h)

SpecString == InitString /\ [][NextString]_vars

\* C6: on a campaign whose token returns false from transfer, a claim that
\* passes the three checks reverts with 'MerkleDistributor: Transfer failed.'
\* and changes nothing: no index of the campaign is claimed, remainingAmount
\* is the deposit, and no balance of the token has moved
C6_TransferFailed ==
    /\ \A c \in Created : distributionMap[c].token \in FalsyTokens =>
          /\ \A x \in WordIndexes : claimedBitMap[c][x] = {}
          /\ distributionMap[c].remainingAmount = deposited[c]
          /\ \A sender \in Wallets : \A h \in DOMAIN info.claims :
                LET k == info.claims[h]
                    r == claimString(World, sender, c, k.index, h, BigNumberFrom(k.amount),
                                     ProofBufs(k))
                IN  /\ ~r.ok
                    /\ r.err = ErrTransferFailed
                    /\ r.w = World
    /\ \A t \in FalsyTokens :
          /\ \A a \in Wallets : balanceOf[t][a] = 0
          /\ balanceOf[t][Registry] =
                 SumSeq([c \in 1..MaxCampaigns |->
                     IF c \in Created /\ distributionMap[c].token = t
                     THEN deposited[c] ELSE 0])
    /\ last = [op |-> "claim", err |-> ErrTransferFailed] =>
          \E c \in Created : distributionMap[c].token \in FalsyTokens

\* a claim on a funded campaign of the false-returning token has just failed
C6_Witness ==
    /\ last = [op |-> "claim", err |-> ErrTransferFailed]
    /\ \E c \in Created :
          /\ distributionMap[c].token \in FalsyTokens
          /\ deposited[c] > 0
          /\ balanceOf[distributionMap[c].token][Registry] >= deposited[c]

\* C9: on a campaign created with the emitted merkleRoot and tokenTotal, the
\* claim that submits the raw string with the emitted index, amount and proof
\* succeeds while its index is unclaimed and reverts with
\* 'MerkleDistributor: Drop already claimed.' afterwards, and the registry
\* holds nothing of the token once every entry is claimed
C9_EndToEndRaw ==
    \A c \in Created : distributionMap[c].token \notin FalsyTokens =>
        /\ \A sender \in Wallets : \A h \in DOMAIN info.claims :
              LET k == info.claims[h]
                  r == claimString(World, sender, c, k.index, RawOf(h),
                                   BigNumberFrom(k.amount), ProofBufs(k))
              IN  IF <<c, k.index>> \in succeeded
                  THEN r.err = ErrAlreadyClaimed
                  ELSE r.ok
        /\ ( /\ Created = {c}
             /\ \A h \in DOMAIN info.claims : <<c, info.claims[h].index>> \in succeeded )
           => balanceOf[distributionMap[c].token][Registry] = 0

(***************************************************************************)
(* Properties of addDistribution and of the campaign records               *)
(***************************************************************************)
\* who may call addDistribution, and with what amounts
Senders == Accounts \ {Registry}
Amounts == 0..MaxBalance

AddFailedStep ==
    (last'.op = "addDistribution" /\ last'.err # "") => UNCHANGED <<chainVars, deposited>>

\* addDistribution reverts for every caller whose balance or allowance is
\* below the amount, and the reverted call leaves the world as it was
AddNeedsFunds ==
    \A sender \in Senders : \A t \in Tokens : \A root \in Roots(salt) : \A amount \in Amounts :
        LET r == addDistribution(World, sender, t, root, amount) IN
        IF balanceOf[t][sender] < amount \/ allowance[t][sender] < amount
        THEN ~r.ok /\ r.w = World
        ELSE r.ok

\* C11: addDistribution by an account whose balance or allowance is below the
\* amount fails, and nextDistributionId, every campaign record and every
\* token balance are as before the call
C11_NoPartialState == []AddNeedsFunds /\ [][AddFailedStep]_vars

\* after one campaign was created, an addDistribution has just failed for
\* the allowance although the balance covered the amount
C11_Witness ==
    /\ nextDistributionId = 2
    /\ last = [op |-> "addDistribution", err |-> "ERC20: transfer amount exceeds allowance"]
    /\ \E t \in Tokens : balanceOf[t][Creator] > allowance[t][Creator]

\* the getters of the registry
token(w, campaignId) == w.distributionMap[campaignId].token
merkleRoot(w, campaignId) == w.distributionMap[campaignId].merkleRoot
remainingAmount(w, campaignId) == w.distributionMap[campaignId].remainingAmount

\* a successful addDistribution stores its arguments under the current id
AddStoresArguments ==
    \A sender \in Senders : \A t \in Tokens : \A root \in Roots(salt) : \A amount \in Amounts :
        LET r == addDistribution(World, sender, t, root, amount)
            k == nextDistributionId
        IN  r.ok => /\ token(r.w, k) = t
                    /\ merkleRoot(r.w, k) = root
                    /\ remainingAmount(r.w, k) = amount

\* every created campaign reads as a campaign, whatever remains of it
RecordReadable ==
    \A c \in Created :
        /\ token(World, c) \in Tokens
        /\ merkleRoot(World, c) \in Roots(salt)
        /\ remainingAmount(World, c) \in 0..deposited[c]

\* no step changes the token or the root of a created campaign, and the
\* campaign a step creates holds the amount deposited by that step
RecordKeptStep ==
    /\ \A c \in Created :
          /\ token(World', c) = token(World, c)
          /\ merkleRoot(World', c) = merkleRoot(World, c)
    /\ (last'.op = "addDistribution" /\ last'.err = "") =>
          remainingAmount(World', nextDistributionId) = deposited'[nextDistributionId]

\* C12: a successful addDistribution with id k makes token(k), merkleRoot(k)
\* and remainingAmount(k) its arguments; token(k) and merkleRoot(k) never
\* change afterwards, and the record is still there when remainingAmount(k)
\* is 0
C12_RecordKept == [](AddStoresArguments /\ RecordReadable) /\ [][RecordKeptStep]_vars

\* a campaign of the drop was paid out to the last unit
C12_Witness ==
    /\ last = [op |-> "claim", err |-> ""]
    /\ \E c \in Created :
          /\ deposited[c] > 0
          /\ remainingAmount(World, c) = 0
          /\ merkleRoot(World, c) = DropRoot[salt]
          /\ token(World, c) \in Tokens

\* the sum of remainingAmount over the created campaigns of token t
RemainingOf(t) ==
    SumSeq([c \in 1..MaxCampaigns |->
        IF c \in Created /\ token(World, c) = t THEN remainingAmount(World, c) ELSE 0])

\* C13: between operations the registry's balance of every token is the sum
\* of remainingAmount over the campaigns of that token
C13_AggregateHolding ==
    \A t \in Tokens : balanceOf[t][Registry] = RemainingOf(t)

\* two campaigns of one token, each partly paid out
C13_Witness ==
    /\ nextDistributionId = 3
    /\ token(World, 1) = token(World, 2)
    /\ \A c \in {1, 2} : claimedSum[c] > 0 /\ remainingAmount(World, c) > 0
    /\ remainingAmount(World, 1) # remainingAmount(World, 2)

(***************************************************************************)
(* Properties of the parser                                                *)
(***************************************************************************)
\* the sum of the amounts of the entries of a map
SumOfMap(m) == SumSeq([i \in DOMAIN m |-> m[i].earnings])

\* the sum of the amount fields of the emitted claims
SumOfClaims(i) ==
    LET ks == SortKeys(DOMAIN i.claims)
    IN  SumSeq([k \in DOMAIN ks |-> BigNumberFrom(i.claims[ks[k]].amount)])

\* C14: for a valid map the emitted tokenTotal is the sum of the amounts of
\* the map and the sum of the amounts of the emitted claims
C14_SumInvariant ==
    (ValidMap(balances) /\ info # NotRun) =>
        /\ info.ok
        /\ BigNumberFrom(info.tokenTotal) = SumOfMap(balances)
        /\ BigNumberFrom(info.tokenTotal) = SumOfClaims(info)
        /\ info.tokenTotal = toHexString(SumOfMap(balances))

\* a map of MaxEntries entries with different amounts was parsed
C14_Witness ==
    /\ info.ok
    /\ Len(balances) = MaxEntries
    /\ \E i \in DOMAIN balances : \E j \in DOMAIN balances :
          balances[i].earnings < balances[j].earnings
    /\ BigNumberFrom(info.tokenTotal) > 300

\* C15: the parser fails for every input with a repeated identifier or an
\* amount that is zero or negative, and a failed run returns no root, no
\* total and no claims; an artifact is returned only for inputs whose
\* identifiers are distinct and whose amounts are all positive
C15_ValidationAllOrNothing ==
    info # NotRun =>
        /\ info.ok <=> ValidMap(balances)
        /\ ~info.ok =>
              /\ info.merkleRoot = <<>>
              /\ info.tokenTotal = <<>>
              /\ info.claims = NoClaims
              /\ info.err \in {"Duplicate target", "Invalid amount for target"}
        /\ info.ok => DOMAIN info.claims = {balances[i].hashed : i \in DOMAIN balances}

\* the parser has refused a map whose last entry repeats an identifier after
\* two good entries
C15_Witness ==
    /\ Len(balances) = 3
    /\ balances[1].earnings > 0
    /\ balances[2].earnings > 0
    /\ balances[1].hashed # balances[2].hashed
    /\ balances[3].hashed = balances[1].hashed
    /\ info = ParseError("Duplicate target")

\* the inputs that hold the entries of m in another order
Reorderings(m) ==
    {[i \in DOMAIN m |-> m[p[i]]] :
        p \in {f \in [DOMAIN m -> DOMAIN m] : \A i, j \in DOMAIN m : f[i] = f[j] => i = j}}

\* C16: the parser yields the same merkleRoot, and the same index, amount and
\* proof for every identifier, on every input that holds the same
\* identifier-to-amount pairs, whatever the order of its entries
C16_Determinism ==
    (ValidMap(balances) /\ info # NotRun) =>
        \A m \in Reorderings(balances) :
            LET again == parseStringBalanceMap(m, salt) IN
            /\ again.ok
            /\ again.merkleRoot = info.merkleRoot
            /\ again.tokenTotal = info.tokenTotal
            /\ again.claims = info.claims

\* a map of three entries given in an order that is not the sorted one, with
\* different amounts, was parsed
C16_Witness ==
    /\ info.ok
    /\ Len(balances) = 3
    /\ LexLess(balances[2].hashed, balances[1].hashed)
    /\ LexLess(balances[3].hashed, balances[2].hashed)
    /\ balances[1].earnings # balances[3].earnings

(***************************************************************************)
(* The registry with a token that calls back: the recipient of a transfer  *)
(* may call claim again before the transfer returns                        *)
(***************************************************************************)
MaxNesting == 2

Frame(campaignId, index, account, amount) ==
    [campaignId |-> campaignId, index |-> index, account |-> account, amount |-> amount]

Top == stack[Len(stack)]

\* claim is called, by a transaction or by the recipient inside a transfer
ClaimCall(campaignId, index, account, amount, merkleProof) ==
    /\ Len(stack) < MaxNesting
    /\ stack # <<>> => campaignId = Top.campaignId
    /\ distributionMap[campaignId].token \in HookTokens
    /\ LET r == claim_upToTransfer(World, campaignId, index, account, amount, merkleProof) IN
       /\ stack # <<>> => r.ok
       /\ Commit(r.w)
       /\ stack' = IF r.ok THEN Append(stack, Frame(campaignId, index, account, amount)) ELSE stack
       /\ last' = [op |-> IF r.ok THEN "transfer" ELSE "claim", err |-> r.err]
    /\ UNCHANGED <<salt, deposited, claimedSum, succeeded, parseVars, distributor, treeManager>>

\* the transfer of the innermost call returns true and that call finishes
ClaimReturn ==
    /\ stack # <<>>
    /\ Commit(claim_afterTransfer(World, Top.campaignId, Top.index, Top.account, Top.amount))
    /\ stack' = SubSeq(stack, 1, Len(stack) - 1)
    /\ claimedSum' = [claimedSum EXCEPT ![Top.campaignId] = @ + Top.amount]
    /\ succeeded' = succeeded \cup {<<Top.campaignId, Top.index>>}
    /\ last' = [op |-> "claim", err |-> ""]
    /\ UNCHANGED <<salt, deposited, parseVars, distributor, treeManager>>

NextReentrant ==
    \/ stack = <<>> /\ \E t \in HookTokens : SetBalance(t, Creator, MaxBalance)
    \/ stack = <<>> /\ \E t \in HookTokens : Approve(t, Creator, MaxBalance)
    \/ stack = <<>> /\ \E t \in HookTokens, root \in Roots(salt), amount \in DepositAmounts :
           AddDistribution(Creator, t, root, amount)
    \/ \E c \in ClaimIds, in \in ClaimInputs[salt] :
           ClaimCall(c, in.index, in.account, in.amount, in.proof)
    \/ ClaimReturn

SpecReentrant == Init /\ [][NextReentrant]_vars

\* C17: in every reachable state, also while the token's transfer has called
\* back into claim for another index of the same campaign, remainingAmount of
\* a campaign is at most the amount deposited at its creation, and no step
\* raises it
RemainingBounded ==
    \A c \in Created : remainingAmount(World, c) <= deposited[c]

RemainingNotRaised ==
    \A c \in Created : remainingAmount(World', c) <= remainingAmount(World, c)

C17_RemainingMonotone == []RemainingBounded /\ [][RemainingNotRaised]_vars

\* two calls of claim are open on one campaign
C17_Nested == Len(stack) = MaxNesting

\* C18: claimed bits are never cleared: once isClaimed(campaignId, index) is
\* true it stays true, whatever operation follows
BitsKeptStep ==
    \A c \in CampaignIds : \A i \in Indexes :
        isClaimed(claimedBitMap, c, i) => isClaimed(claimedBitMap', c, i)

C18_BitsNeverCleared == [][BitsKeptStep]_vars

\* a campaign whose drop is claimed in full: two bits of one word and one of
\* the next word were set one after the other
C18_Witness ==
    \E c \in Created : \A i \in Indexes :
        isClaimed(claimedBitMap, c, i) /\ <<c, i>> \in succeeded

(***************************************************************************)
(* The registry with campaigns over a one-leaf tree, the three-leaf drop   *)
(* and the zero root                                                       *)
(***************************************************************************)
SoloLeaf == DropLeaves[1]

SoloTree == [s \in Salts |-> MerkleTree(<<DropNode(SoloLeaf)>>, s)]

SoloRoot == [s \in Salts |-> getRoot(SoloTree[s])]

NextSolo ==
    \/ SetBalance("TKN", Creator, MaxBalance)
    \/ Approve("TKN", Creator, MaxBalance)
    \/ \E root \in Roots(salt) \cup {SoloRoot[salt]}, amount \in DepositAmounts :
           AddDistribution(Creator, "TKN", root, amount)
    \/ \E c \in ClaimIds, in \in ClaimInputs[salt] :
           Claim(c, in.index, in.account, in.amount, in.proof)

SpecSolo == Init /\ [][NextSolo]_vars

EmptyProofInputs == {in \in AllClaimInputs[salt] : in.proof = <<>>}

IsSoloLeaf(in) ==
    /\ in.index = SoloLeaf.index
    /\ in.account = SoloLeaf.account
    /\ in.amount = SoloLeaf.amount

\* C19 as stated: an empty proof is accepted only for the leaf of a one-leaf
\* tree, and on a larger tree or a zero root it fails with
\* 'MerkleDistributor: Invalid proof.'
C19_AsStated ==
    \A c \in Created : \A in \in EmptyProofInputs :
        LET r == claim(World, c, in.index, in.account, in.amount, <<>>) IN
        /\ r.ok => merkleRoot(World, c) = SoloRoot[salt] /\ IsSoloLeaf(in)
        /\ merkleRoot(World, c) \in Roots(salt) => r.err = ErrInvalidProof

\* C19: an empty proof is accepted only for the leaf of a one-leaf tree; on
\* the three-leaf tree and on a zero root it fails and changes nothing, with
\* 'MerkleDistributor: Invalid proof.' when its index is unclaimed and its
\* amount is within remainingAmount, and with the error of the earlier check
\* otherwise
C19_EmptyProof ==
    \A c \in Created : \A in \in EmptyProofInputs :
        LET r == claim(World, c, in.index, in.account, in.amount, <<>>) IN
        /\ r.ok => merkleRoot(World, c) = SoloRoot[salt] /\ IsSoloLeaf(in)
        /\ merkleRoot(World, c) \in Roots(salt) =>
              /\ ~r.ok
              /\ r.w = World
              /\ r.err = IF isClaimed(claimedBitMap, c, in.index) THEN ErrAlreadyClaimed
                         ELSE IF in.amount > remainingAmount(World, c) THEN ErrInsufficient
                         ELSE ErrInvalidProof

\* the leaf of a one-leaf campaign has been paid on an empty proof, and an
\* empty proof has just been refused as invalid by a campaign of another
\* root that could have paid it
C19_Witness ==
    /\ \E c \in Created :
          /\ merkleRoot(World, c) = SoloRoot[salt]
          /\ <<c, SoloLeaf.index>> \in succeeded
    /\ last = [op |-> "claim", err |-> ErrInvalidProof]
    /\ \E c \in Created : \E in \in EmptyProofInputs :
          /\ merkleRoot(World, c) \in Roots(salt)
          /\ ~isClaimed(claimedBitMap, c, in.index)
          /\ in.amount <= remainingAmount(World, c)
          /\ in.amount <= balanceOf[token(World, c)][Registry]

(***************************************************************************)
(* StringMerkleDistributor: one campaign per contract, no remainingAmount  *)
(***************************************************************************)
ErrSingleAlreadyClaimed == "StringMerkleDistributor: Drop already claimed."
ErrSingleInvalidProof == "StringMerkleDistributor: Invalid proof."
ErrSingleTransferFailed == "StringMerkleDistributor: Transfer failed."

\* constructor(token_, merkleRoot_)
StringMerkleDistributor(token_, merkleRoot_) ==
    [token |-> token_, merkleRoot |-> merkleRoot_,
     claimedBitMap |-> [x \in WordIndexes |-> {}]]

StringMerkleDistributor_isClaimed(d, index) ==
    LET claimedWordIndex == index \div WordBits
        claimedBitIndex == index % WordBits
        claimedWord == d.claimedBitMap[claimedWordIndex]
        mask == {claimedBitIndex}
    IN  claimedWord \cap mask = mask

StringMerkleDistributor_setClaimed(d, index) ==
    LET claimedWordIndex == index \div WordBits
        claimedBitIndex == index % WordBits
    IN  [d EXCEPT !.claimedBitMap[claimedWordIndex] = @ \cup {claimedBitIndex}]

SingleRevert(d, bal, msg) ==
    [ok |-> FALSE, err |-> msg, d |-> d, bal |-> bal, emitted |-> <<>>]
\* event Claimed(index, account, amount) of the single-campaign distributor
SingleClaimed(index, account, amount) ==
    [index |-> index, account |-> account, amount |-> amount]

SingleReturn(d, bal, e) ==
    [ok |-> TRUE, err |-> "", d |-> d, bal |-> bal, emitted |-> <<e>>]

\* mutant: a failed transfer leaves the index marked
StringMerkleDistributor_claim_keepMark(d, bal, sender, index, target, amount, merkleProof, s) ==
    IF StringMerkleDistributor_isClaimed(d, index)
    THEN SingleRevert(d, bal, ErrSingleAlreadyClaimed)
    ELSE LET hashed == keccak256(target)
             node == keccak256(<<index>> \o hashed \o <<amount>>) IN
    IF ~MerkleProof_verify(merkleProof, d.merkleRoot, node, s)
    THEN SingleRevert(d, bal, ErrSingleInvalidProof)
    ELSE LET marked == StringMerkleDistributor_setClaimed(d, index)
             t == transfer(bal, <<>>, d.token, Distributor, sender, amount)
         IN  IF t.reverted THEN SingleRevert(marked, bal, t.msg)
             ELSE IF ~t.ret THEN SingleRevert(d, bal, ErrSingleTransferFailed)
             ELSE SingleReturn(marked, t.bal, SingleClaimed(index, sender, amount))

\* mutant: the tokens go to wallet 1 whoever calls
StringMerkleDistributor_claim_payWallet(d, bal, sender, index, target, amount, merkleProof, s) ==
    IF StringMerkleDistributor_isClaimed(d, index)
    THEN SingleRevert(d, bal, ErrSingleAlreadyClaimed)
    ELSE LET hashed == keccak256(target)
             node == keccak256(<<index>> \o hashed \o <<amount>>) IN
    IF ~MerkleProof_verify(merkleProof, d.merkleRoot, node, s)
    THEN SingleRevert(d, bal, ErrSingleInvalidProof)
    ELSE LET marked == StringMerkleDistributor_setClaimed(d, index)
             t == transfer(bal, <<>>, d.token, Distributor, 1, amount)
         IN  IF t.reverted THEN SingleRevert(d, bal, t.msg)
             ELSE IF ~t.ret THEN SingleRevert(d, bal, ErrSingleTransferFailed)
             ELSE SingleReturn(marked, t.bal, SingleClaimed(index, sender, amount))

\* StringMerkleDistributor.claim(index, target, amount, merkleProof) called
\* by sender, on the storage d and the token balances bal
StringMerkleDistributor_claim(d, bal, sender, index, target, amount, merkleProof, s) ==
    IF StringMerkleDistributor_isClaimed(d, index)
    THEN SingleRevert(d, bal, ErrSingleAlreadyClaimed)
    ELSE LET hashed == keccak256(target)
             node == keccak256(<<index>> \o hashed \o <<amount>>) IN
    IF ~MerkleProof_verify(merkleProof, d.merkleRoot, node, s)
    THEN SingleRevert(d, bal, ErrSingleInvalidProof)
    ELSE LET marked == StringMerkleDistributor_setClaimed(d, index)
             t == transfer(bal, <<>>, d.token, Distributor, sender, amount)
         IN  IF t.reverted THEN SingleRevert(d, bal, t.msg)
             ELSE IF ~t.ret THEN SingleRevert(d, bal, ErrSingleTransferFailed)
             ELSE SingleReturn(marked, t.bal, SingleClaimed(index, sender, amount))

\* the drop of the single campaign: leaves keccak256(index, keccak256(target),
\* amount), two in one bitmap word and one in the next
SingleLeaves ==
    << [index |-> 0, target |-> StrBytes(1), amount |-> 1],
       [index |-> 1, target |-> StrBytes(2), amount |-> 2],
       [index |-> WordBits, target |-> StrBytes(3), amount |-> 1] >>

SingleNode(l) == keccak256(<<l.index>> \o keccak256(l.target) \o <<l.amount>>)

SingleTree == [s \in Salts |->
    MerkleTree([i \in DOMAIN SingleLeaves |-> SingleNode(SingleLeaves[i])], s)]

SingleRoot == [s \in Salts |-> getRoot(SingleTree[s])]

\* the request that belongs to leaf i
SingleClaim(i, s) ==
    [index |-> SingleLeaves[i].index, target |-> SingleLeaves[i].target,
     amount |-> SingleLeaves[i].amount,
     proof |-> getProof(SingleTree[s], SingleNode(SingleLeaves[i]))]

SingleClaims == [s \in Salts |-> {SingleClaim(i, s) : i \in DOMAIN SingleLeaves}]

\* what callers submit: a request of the drop, or one with the proof left out
SingleInputs == [s \in Salts |->
    SingleClaims[s] \cup {[v EXCEPT !.proof = <<>>] : v \in SingleClaims[s]}]

InitSingle ==
    /\ salt \in Salts
    /\ InitChain
    /\ InitParseIdle
    /\ distributor = StringMerkleDistributor("TKN", SingleRoot[salt])

\* token.setBalance(distributor.address, amount)
FundDistributor(amount) ==
    /\ balanceOf' = setBalance(balanceOf, distributor.token, Distributor, amount)
    /\ last' = [op |-> "setBalance", err |-> ""]
    /\ UNCHANGED <<salt, events, nextDistributionId, distributionMap, claimedBitMap, allowance,
                   deposited, claimedSum, succeeded, parseVars, stack, distributor, treeManager>>

ClaimSingle(sender, index, target, amount, merkleProof) ==
    /\ LET r == StringMerkleDistributor_claim(distributor, balanceOf, sender, index, target,
                                              amount, merkleProof, salt) IN
       /\ distributor' = r.d
       /\ balanceOf' = r.bal
       /\ events' = IF r.emitted = <<>> THEN events ELSE emit(events, r.emitted[1])
       /\ last' = [op |-> "claim", err |-> r.err]
    /\ UNCHANGED <<salt, nextDistributionId, distributionMap, claimedBitMap, allowance,
                   deposited, claimedSum, succeeded, parseVars, stack, treeManager>>

NextSingle ==
    \/ \E amount \in 0..MaxBalance : FundDistributor(amount)
    \/ \E sender \in Wallets \cup {Relay}, in \in SingleInputs[salt] :
           ClaimSingle(sender, in.index, in.target, in.amount, in.proof)

SpecSingle == InitSingle /\ [][NextSingle]_vars

ErrExceedsBalance == "ERC20: transfer amount exceeds balance"

\* C20: on the single-campaign distributor a claim with a valid proof for an
\* unclaimed index whose amount exceeds the distributor's token balance fails
\* with the token's own error, leaves isClaimed(index) false and every balance
\* as it was, and the same claim succeeds once the distributor holds the amount
C20_Underfunded ==
    \A sender \in Wallets : \A in \in SingleClaims[salt] :
        (/\ ~StringMerkleDistributor_isClaimed(distributor, in.index)
         /\ in.amount > balanceOf[distributor.token][Distributor]) =>
            LET r == StringMerkleDistributor_claim(distributor, balanceOf, sender, in.index,
                                                   in.target, in.amount, in.proof, salt)
            IN  /\ ~r.ok
                /\ r.err = ErrExceedsBalance
                /\ ~StringMerkleDistributor_isClaimed(r.d, in.index)
                /\ r.d = distributor
                /\ r.bal = balanceOf
                /\ \A funded \in in.amount..MaxBalance :
                      LET again == StringMerkleDistributor_claim(
                                       r.d, setBalance(r.bal, distributor.token, Distributor, funded),
                                       sender, in.index, in.target, in.amount, in.proof, salt)
                      IN  /\ again.ok
                          /\ StringMerkleDistributor_isClaimed(again.d, in.index)
                          /\ again.bal[distributor.token][Distributor] = funded - in.amount
                          /\ again.bal[distributor.token][sender]
                                 = balanceOf[distributor.token][sender] + in.amount

\* a claim has just failed for the distributor's balance after another leaf
\* was paid, and its index is still unclaimed
C20_Witness ==
    /\ last = [op |-> "claim", err |-> ErrExceedsBalance]
    /\ \E in \in SingleClaims[salt] : StringMerkleDistributor_isClaimed(distributor, in.index)
    /\ \E in \in SingleClaims[salt] :
          /\ ~StringMerkleDistributor_isClaimed(distributor, in.index)
          /\ in.amount > balanceOf[distributor.token][Distributor]

\* who can call claim for a transaction sent by origin: origin itself, or a
\* contract that origin called
CallersFor(origin) == {origin, Relay}

\* a successful claim pays recipient, names it in its one event, and moves
\* no other balance than the distributor's and the recipient's
PaysOnly(r, in, recipient) ==
    /\ r.emitted = <<SingleClaimed(in.index, recipient, in.amount)>>
    /\ r.bal[distributor.token][recipient]
           = balanceOf[distributor.token][recipient] + in.amount
    /\ r.bal[distributor.token][Distributor]
           = balanceOf[distributor.token][Distributor] - in.amount
    /\ \A a \in DOMAIN balanceOf[distributor.token] \ {recipient, Distributor} :
          r.bal[distributor.token][a] = balanceOf[distributor.token][a]

RECURSIVE SumOfEvents(_)
SumOfEvents(S) ==
    IF S = {} THEN 0
    ELSE LET e == CHOOSE x \in S : TRUE
         IN  CopiesIn(e, events) * e.amount + SumOfEvents(S \ {e})

EventsOf(c) == {e \in BagToSet(events) : e.campaignId = c}

\* the events of a campaign sum to what it has paid out, and no event is
\* logged twice
EventsAccount ==
    /\ \A c \in Created : SumOfEvents(EventsOf(c)) = deposited[c] - remainingAmount(World, c)
    /\ \A e \in BagToSet(events) : CopiesIn(e, events) = 1

\* a successful claim logs one event, with the campaign and index it marked,
\* the account it paid and the amount it paid and took from remainingAmount; a
\* failed claim, and every other call, logs nothing
EventStep ==
    IF last'.op = "claim" /\ last'.err = ""
    THEN \E c \in Created : \E i \in Indexes : \E a \in Wallets : \E n \in ClaimAmounts :
            /\ events' = emit(events, Claimed(c, i, a, n))
            /\ ~isClaimed(claimedBitMap, c, i) /\ isClaimed(claimedBitMap', c, i)
            /\ balanceOf'[token(World, c)][a] = balanceOf[token(World, c)][a] + n
            /\ balanceOf'[token(World, c)][Registry] = balanceOf[token(World, c)][Registry] - n
            /\ remainingAmount(World', c) = remainingAmount(World, c) - n
    ELSE events' = events

RECURSIVE OpenAmount(_, _)
OpenAmount(frames, c) ==
    IF frames = <<>> THEN 0
    ELSE (IF Head(frames).campaignId = c THEN Head(frames).amount ELSE 0)
         + OpenAmount(Tail(frames), c)

\* C23: within one claim the bitmap bit is set and remainingAmount is
\* decremented before the token transfer is invoked: while a transfer runs,
\* storage already holds the reduced remainingAmount
C23_EffectsBeforeTransfer ==
    stack # <<>> =>
        /\ isClaimed(claimedBitMap, Top.campaignId, Top.index)
        /\ remainingAmount(World, Top.campaignId)
               = deposited[Top.campaignId] - claimedSum[Top.campaignId]
                 - OpenAmount(stack, Top.campaignId)

\* the proof of a request does not lead from its leaf to the campaign's root
BadProof(c, in) ==
    ~MerkleProof_verify(in.proof, merkleRoot(World, c),
                        keccak256(<<in.index>> \o AddrBytes(in.account) \o <<in.amount>>), salt)

\* C24: claim checks AlreadyClaimed, then InsufficientRemaining, then
\* InvalidProof: an already claimed index fails with 'Drop already claimed'
\* whatever its amount and proof, an unclaimed index with an amount above
\* remainingAmount fails with 'Insufficient token' whatever its proof, and a
\* claim refused by one of the three checks has written nothing and moved no
\* token
C24_CheckOrder ==
    \A c \in ClaimIds : \A in \in AllClaimInputs[salt] :
        LET r == claim(World, c, in.index, in.account, in.amount, in.proof) IN
        /\ isClaimed(claimedBitMap, c, in.index) => r.err = ErrAlreadyClaimed
        /\ (/\ ~isClaimed(claimedBitMap, c, in.index)
            /\ in.amount > remainingAmount(World, c)) => r.err = ErrInsufficient
        /\ (/\ ~isClaimed(claimedBitMap, c, in.index)
            /\ in.amount <= remainingAmount(World, c)
            /\ BadProof(c, in)) => r.err = ErrInvalidProof
        /\ r.err \in {ErrAlreadyClaimed, ErrInsufficient, ErrInvalidProof} =>
              ~r.ok /\ r.w = World

\* a claim has just been refused for its amount; the campaign has a claimed
\* index whose request also has too high an amount and a bad proof, and an
\* unclaimed one with too high an amount and a bad proof
C24_Witness ==
    /\ last = [op |-> "claim", err |-> ErrInsufficient]
    /\ \E c \in Created :
          /\ \E in \in AllClaimInputs[salt] :
                /\ isClaimed(claimedBitMap, c, in.index)
                /\ in.amount > remainingAmount(World, c)
                /\ BadProof(c, in)
          /\ \E in \in AllClaimInputs[salt] :
                /\ ~isClaimed(claimedBitMap, c, in.index)
                /\ in.amount > remainingAmount(World, c)
                /\ BadProof(c, in)

\* the (campaignId, index) pairs of the claims whose transfer is running
OpenPairs == {<<stack[k].campaignId, stack[k].index>> : k \in DOMAIN stack}

\* C25: a claim for (campaignId, index) started from inside the token
\* transfer of a running claim for the same (campaignId, index) sees the bit
\* set and fails with 'Drop already claimed', whatever account, amount and
\* proof it submits; no entitlement is logged as paid twice
C25_NoDoubleClaim ==
    /\ \A k \in DOMAIN stack : \A in \in AllClaimInputs[salt] :
          in.index = stack[k].index =>
              LET r == claim_upToTransfer(World, stack[k].campaignId, in.index, in.account,
                                          in.amount, in.proof)
              IN  ~r.ok /\ r.err = ErrAlreadyClaimed /\ r.w = World
    /\ \A e \in BagToSet(events) : CopiesIn(e, events) = 1
    /\ \A e \in BagToSet(events) : \A f \in BagToSet(events) :
          (e.campaignId = f.campaignId /\ e.index = f.index) => e = f
    /\ Cardinality(OpenPairs) = Len(stack)
    /\ \A q \in OpenPairs : q \notin succeeded

\* a claim is running inside the transfer of another claim of the campaign,
\* which could still pay both requests once more
C25_Witness ==
    /\ Len(stack) = MaxNesting
    /\ \A k \in DOMAIN stack :
          /\ stack[k].amount <= remainingAmount(World, stack[k].campaignId)
          /\ stack[k].amount <= balanceOf[token(World, stack[k].campaignId)][Registry]

\* the indexes looked at: those of the drop and their neighbours in the two
\* bitmap words
ProbeIndexes == Indexes \cup {WordBits - 1, WordBits + 1}

\* the bitmap says claimed exactly for the pairs of the successful claims
BitmapRefinesSet ==
    \A c \in CampaignIds : \A i \in ProbeIndexes :
        isClaimed(claimedBitMap, c, i) <=> <<c, i>> \in succeeded

\* isClaimed changes only in a successful claim, and only for its own pair
BitmapStep ==
    \A c \in CampaignIds : \A i \in ProbeIndexes :
        isClaimed(claimedBitMap', c, i) # isClaimed(claimedBitMap, c, i) =>
            /\ last'.op = "claim" /\ last'.err = ""
            /\ succeeded' = succeeded \cup {<<c, i>>}
            /\ \A d \in CampaignIds : \A j \in ProbeIndexes :
                  <<d, j>> # <<c, i>> =>
                      isClaimed(claimedBitMap', d, j) = isClaimed(claimedBitMap, d, j)

\* C26: the packed bitmap refines the set of claimed pairs: isClaimed(c, i)
\* is true exactly when a claim for (c, i) has succeeded, and a claim for
\* (c, i) changes isClaimed for no other pair: not for another index of the
\* same word, not for i + 256, not for index i of another campaign
C26_BitmapRefinement == []BitmapRefinesSet /\ [][BitmapStep]_vars

\* index 0 is claimed in one campaign and not in another, and in that
\* campaign index 256 is claimed while index 1 is not
C26_Witness ==
    \E c \in Created : \E d \in Created :
        /\ isClaimed(claimedBitMap, c, 0) /\ ~isClaimed(claimedBitMap, d, 0)
        /\ isClaimed(claimedBitMap, c, WordBits) /\ ~isClaimed(claimedBitMap, c, 1)
        /\ merkleRoot(World, d) = DropRoot[salt]

\* claim q executed after claim p, from the current state
ClaimAfter(p, q) ==
    LET first == claim(World, p.c, p.in.index, p.in.account, p.in.amount, p.in.proof)
    IN  [first |-> first,
         second |-> claim(first.w, q.c, q.in.index, q.in.account, q.in.amount, q.in.proof)]

\* the valid claims that are open: a request of the drop on a campaign of the
\* drop's root whose token reports success, for an index not yet claimed
OpenClaims ==
    {p \in [c : Created, in : DropClaims[salt]] :
        /\ merkleRoot(World, p.c) = DropRoot[salt]
        /\ token(World, p.c) \in Tokens \ FalsyTokens
        /\ ~isClaimed(claimedBitMap, p.c, p.in.index)}

\* remainingAmount covers p and q together
CoversBoth(p, q) ==
    IF p.c = q.c THEN p.in.amount + q.in.amount <= remainingAmount(World, p.c)
    ELSE /\ p.in.amount <= remainingAmount(World, p.c)
         /\ q.in.amount <= remainingAmount(World, q.c)

Covers(p) == p.in.amount <= remainingAmount(World, p.c)

\* both orders succeed and end in the same storage, balances and log
Commute(p, q) ==
    /\ ClaimAfter(p, q).first.ok /\ ClaimAfter(p, q).second.ok
    /\ ClaimAfter(q, p).first.ok /\ ClaimAfter(q, p).second.ok
    /\ ClaimAfter(p, q).second.w = ClaimAfter(q, p).second.w

RECURSIVE CeilLog2(_)
CeilLog2(n) == IF n <= 1 THEN 0 ELSE 1 + CeilLog2((n + 1) \div 2)

IsPowerOfTwo(n) == n = 2 ^ CeilLog2(n)

\* the number of leaves of the tree the parser built
LeafCount == Cardinality(DOMAIN info.claims)

ProofLengths == {Len(info.claims[h].proof) : h \in DOMAIN info.claims}

\* C28 as stated: the proof emitted for every leaf of a tree of N >= 1 leaves
\* has exactly ceil(log2(N)) sibling digests
C28_AsStated ==
    (info # NotRun /\ info.ok) => ProofLengths = {CeilLog2(LeafCount)}

\* C28: the proof emitted for a leaf of a tree of N >= 1 leaves has at most
\* ceil(log2(N)) sibling digests; some leaf has exactly that many, every leaf
\* does when N is a power of two, and when N is not, some leaf, carried up
\* unpaired at a level, has fewer
C28_ProofLength ==
    (info # NotRun /\ info.ok) =>
        /\ \A n \in ProofLengths : n <= CeilLog2(LeafCount)
        /\ CeilLog2(LeafCount) \in ProofLengths
        /\ IsPowerOfTwo(LeafCount) <=> ProofLengths = {CeilLog2(LeafCount)}

\* a tree of MaxEntries leaves was built
C28_Witness ==
    /\ info # NotRun /\ info.ok
    /\ LeafCount = MaxEntries

\* the verifier the claim refers to: at level k the order of concatenation is
\* taken from bit k of the leaf index
RECURSIVE FoldByIndexBits(_, _, _)
FoldByIndexBits(running, proof, bits) ==
    IF proof = <<>> THEN running
    ELSE FoldByIndexBits(IF bits % 2 = 0 THEN keccak256(running \o Head(proof))
                         ELSE keccak256(Head(proof) \o running),
                         Tail(proof), bits \div 2)

\* verifyProof for identifier h with the proof emitted for identifier k
VerifyWith(h, k) ==
    verifyProof(info.claims[h].index, h, BigNumberFrom(info.claims[h].amount),
                ProofBufs(info.claims[k]), hexToBuf(info.merkleRoot), salt)

SortedPosition(h) == Cardinality({k \in DOMAIN info.claims : LexLess(k, h)})

\* C30: for a valid map of N identifiers the emitted indexes are exactly
\* 0..N-1, each used once, the index of an identifier is its position in the
\* sorted order of the identifiers, and the leaf built for the identifier
\* encodes this index and no other
C30_DenseIndexes ==
    (info # NotRun /\ info.ok) =>
        /\ {info.claims[h].index : h \in DOMAIN info.claims} = 0..(LeafCount - 1)
        /\ \A h \in DOMAIN info.claims : \A k \in DOMAIN info.claims :
              info.claims[h].index = info.claims[k].index => h = k
        /\ \A h \in DOMAIN info.claims : info.claims[h].index = SortedPosition(h)
        /\ \A h \in DOMAIN info.claims : \A j \in 0..(LeafCount - 1) :
              verifyProof(j, h, BigNumberFrom(info.claims[h].amount),
                          ProofBufs(info.claims[h]), hexToBuf(info.merkleRoot), salt)
                  <=> j = info.claims[h].index

\* a map of MaxEntries identifiers given in another order than the sorted one
\* was parsed
C30_Witness ==
    /\ info # NotRun /\ info.ok
    /\ LeafCount = MaxEntries
    /\ \E i \in DOMAIN balances : info.claims[balances[i].hashed].index # i - 1

\* the string-keyed registry with campaign 1 holding the distributor's token
\* and root, the distributor's claimed bits, and funds for every amount
RegistryLike(d) ==
    [World EXCEPT !.nextDistributionId = 2,
                  !.distributionMap[1] = [token |-> d.token, merkleRoot |-> d.merkleRoot,
                                          remainingAmount |-> MaxBalance],
                  !.claimedBitMap[1] = d.claimedBitMap,
                  !.balanceOf = setBalance(@, d.token, Registry, MaxBalance)]

\* C31: for the same root, the same claimed bits and sufficient funds,
\* StringMerkleDistributor.claim and StringMerkleDistributorManager.claim
\* accept exactly the same (index, target, amount, proof), and on acceptance
\* both mark the index and pay amount to the caller
C31_SameSemantics ==
    \A sender \in Wallets \cup {Relay} : \A in \in SingleInputs[salt] :
        LET funded == setBalance(balanceOf, distributor.token, Distributor, MaxBalance)
            single == StringMerkleDistributor_claim(distributor, funded, sender, in.index,
                                                    in.target, in.amount, in.proof, salt)
            w == RegistryLike(distributor)
            many == claimString(w, sender, 1, in.index, in.target, in.amount, in.proof)
        IN  /\ single.ok <=> many.ok
            /\ single.ok =>
                  /\ StringMerkleDistributor_isClaimed(single.d, in.index)
                  /\ isClaimed(many.w.claimedBitMap, 1, in.index)
                  /\ single.bal[distributor.token][sender]
                         = funded[distributor.token][sender] + in.amount
                  /\ many.w.balanceOf[distributor.token][sender]
                         = w.balanceOf[distributor.token][sender] + in.amount

\* the accounts that can send the claim transaction: a wallet, the creator or
\* a forwarding contract
Callers == Senders \cup {Relay}

\* C32: in the address-keyed registry a successful claim(campaignId, index,
\* account, amount, proof) transfers amount to account, whoever calls, and
\* changes the caller's token balance only when the caller is account
C32_PaysAccount ==
    \A caller \in Callers : \A c \in ClaimIds : \A in \in ClaimInputs[salt] :
        LET r == claim(World, c, in.index, in.account, in.amount, in.proof)
            paid == token(World, c)
        IN  r.ok =>
              /\ r.w.balanceOf[paid][in.account] = balanceOf[paid][in.account] + in.amount
              /\ r.w.balanceOf[paid][Registry] = balanceOf[paid][Registry] - in.amount
              /\ caller # in.account =>
                    \A t \in DOMAIN balanceOf : r.w.balanceOf[t][caller] = balanceOf[t][caller]

\* a claim has just paid the account of its leaf while another leaf's account,
\* a possible caller, holds nothing, and a further claim can still succeed
C32_Witness ==
    /\ last = [op |-> "claim", err |-> ""]
    /\ \E e \in BagToSet(events) : \E caller \in Wallets \ {e.account} :
          /\ balanceOf[token(World, e.campaignId)][e.account] >= e.amount
          /\ balanceOf[token(World, e.campaignId)][caller] = 0
    /\ \E c \in ClaimIds : \E in \in ClaimInputs[salt] :
          claim(World, c, in.index, in.account, in.amount, in.proof).ok

\* the keys of the parsed map whose index is not yet claimed on campaign c
Unclaimed(c) ==
    {h \in DOMAIN info.claims : ~isClaimed(claimedBitMap, c, info.claims[h].index)}

\* the sum of the emitted amounts of the entries not yet claimed on campaign c
SumUnclaimed(c) ==
    SumSeq([i \in DOMAIN balances |->
               IF balances[i].hashed \in Unclaimed(c)
               THEN BigNumberFrom(info.claims[balances[i].hashed].amount) ELSE 0])

\* the claim of the entry with key h on campaign c, submitted by sender with
\* the emitted index, amount and proof
EmittedClaim(sender, c, h) ==
    claimString(World, sender, c, info.claims[h].index, h,
                BigNumberFrom(info.claims[h].amount), ProofBufs(info.claims[h]))

\* C33 as stated: on a campaign created with the merkleRoot and the
\* tokenTotal of a parsed map, remainingAmount is at least the sum of the
\* amounts of the entries not yet claimed, and every unclaimed entry is
\* claimable with its emitted proof
C33_AsStated ==
    \A c \in Created :
        /\ remainingAmount(World, c) >= SumUnclaimed(c)
        /\ \A sender \in Wallets : \A h \in Unclaimed(c) : EmittedClaim(sender, c, h).ok

\* C33: on a campaign created with the merkleRoot and the tokenTotal of a
\* parsed map, remainingAmount is at least the sum of the amounts of the
\* entries not yet claimed; when the campaign's token reports success from
\* transfer, every unclaimed entry is claimable with its emitted proof, and
\* otherwise its claim fails with 'MerkleDistributor: Transfer failed.'
C33_StaysClaimable ==
    \A c \in Created :
        /\ remainingAmount(World, c) >= SumUnclaimed(c)
        /\ \A sender \in Wallets : \A h \in Unclaimed(c) :
              IF token(World, c) \in FalsyTokens
              THEN EmittedClaim(sender, c, h).err = ErrTransferFailed
              ELSE EmittedClaim(sender, c, h).ok

\* two campaigns were created from the map, and on one whose token reports
\* success an entry has been claimed and another is still unclaimed
C33_Witness ==
    /\ Created = 1..MaxCampaigns
    /\ \E c \in Created :
          /\ token(World, c) \notin FalsyTokens
          /\ Unclaimed(c) # {}
          /\ Unclaimed(c) # DOMAIN info.claims
          /\ remainingAmount(World, c) > 0

\* what a caller can submit against an id without a campaign: any index,
\* account and proof of the drop with any amount, zero included
ProbeInputs ==
    [index : Indexes, account : Wallets, amount : 0..MaxBalance, proof : Proofs(salt)]

\* C34: a claim against a campaign id that was never created (0, or an id at
\* or above nextDistributionId) fails for every index, account, amount and
\* proof, on the remainingAmount check when the amount is positive and on the
\* proof check when it is zero, and changes no state and moves no tokens
C34_UncreatedFails ==
    \A c \in CampaignIds \ Created : \A in \in ProbeInputs :
        LET r == claim(World, c, in.index, in.account, in.amount, in.proof) IN
        /\ ~r.ok
        /\ r.err = IF in.amount > 0 THEN ErrInsufficient ELSE ErrInvalidProof
        /\ r.w = World

\* a claim has just failed against an id without a campaign while the
\* registry holds the untouched deposit of the one campaign there is
C34_Witness ==
    /\ last = [op |-> "claim", err |-> ErrInsufficient]
    /\ Created = {1}
    /\ remainingAmount(World, 1) = MaxBalance
    /\ balanceOf[token(World, 1)][Registry] = MaxBalance
    /\ \A c \in CampaignIds \ Created : distributionMap[c] = EmptyDistribution

(***************************************************************************)
(* The tree registry on its own                                            *)
(***************************************************************************)
\* the roots given to addTree: the two of the tests and the root of a drop
TreeRoots == {ZERO_BYTES32, ONE_BYTES32, DropRoot[0]}

AddTree(newMerkleRoot) ==
    /\ LET r == addTree(treeManager, newMerkleRoot) IN
       /\ treeManager' = r.m
       /\ last' = [op |-> "addTree", err |-> r.err]
    /\ UNCHANGED <<salt, chainVars, deposited, claimedSum, succeeded, parseVars, stack,
                   distributor>>

NextTree == \E root \in TreeRoots : AddTree(root)

SpecTree == Init /\ [][NextTree]_vars

\* the ids that addTree has assigned
AssignedTreeIds == 1..(treeManager.nextTreeId - 1)

\* nextTreeId is 1 before the first addTree, and an addTree whose increment
\* would overflow reverts and stores nothing
TreeIdsState ==
    /\ last = NoCall => treeManager = IMerkleTreeManager /\ treeManager.nextTreeId = 1
    /\ treeManager.nextTreeId \in 1..MaxTreeId
    /\ \A id \in TreeIds \ AssignedTreeIds : treeManager.merkleRootMap[id] = ZERO_BYTES32
    /\ \A root \in TreeRoots :
          LET r == addTree(treeManager, root) IN
          IF treeManager.nextTreeId + 1 > MaxTreeId
          THEN ~r.ok /\ r.m = treeManager
          ELSE r.ok

\* a successful addTree stores its root under the current nextTreeId, raises
\* nextTreeId by exactly 1 and keeps the root of every other id; a failed one
\* changes nothing
TreeIdsStep ==
    IF last'.err = ""
    THEN /\ treeManager'.nextTreeId = treeManager.nextTreeId + 1
         /\ treeManager'.merkleRootMap[treeManager.nextTreeId] \in TreeRoots
         /\ \A id \in TreeIds \ {treeManager.nextTreeId} :
               treeManager'.merkleRootMap[id] = treeManager.merkleRootMap[id]
    ELSE /\ treeManager' = treeManager
         /\ treeManager.nextTreeId = MaxTreeId

====
